---- MODULE Spec2Model ----
(***************************************************************************)
(* The tic-tac-toe game server (src/server.py) and its Room class          *)
(* (src/Room.py).  One handler process per connection (handle_client);     *)
(* the handlers share four multiprocessing.Manager dictionaries (rooms,    *)
(* clients, authenticated_clients, users).  Reading rooms[name] returns a  *)
(* private copy of the Room; a handler changes the copy and writes it      *)
(* back.  Every access to a shared dictionary is one step of the model.    *)
(***************************************************************************)
EXTENDS Integers, Sequences, FiniteSets, TLC

VARIABLES
    rooms,                  \* manager dict: room name -> Room, in insertion order
    clients,                \* manager dict: connection -> room name or None
    authenticated_clients,  \* manager dict: connection -> username
    users,                  \* manager dict: username -> password
    pc,                     \* each handler's position in handle_client
    loc,                    \* each handler's local variables
    sent,                   \* the sendall calls of the last step, in order
    last,                   \* the handler that took the last step and what it serves
    ended,                  \* history: GAMEEND texts produced for each room name
    placer,                 \* history: whose placement each room name got last
    todo                    \* the messages each client has still to send, in order

vars == <<rooms, clients, authenticated_clients, users, pc, loc, sent, last,
          ended, placer, todo>>

----------------------------------------------------------------------------
(* Bounds of the model. *)

\* a player sends PLACE only while its room's board has fewer marks than this
MaxMarks == 2
\* a JOIN as VIEWER is sent only to a room with fewer viewers than this
MaxViewers == 2

Conns == {"c1", "c2", "c3"}
Users == {"u1", "u2", "u3"}
RoomNames == {"r1", "r2"}
None == "None"
NoConn == "nobody"
GoodPassword == "pw"
BadPassword == "bad"

----------------------------------------------------------------------------
(* Python dictionaries, as sequences of <<key, value>> in insertion order. *)

DictKeys(d) == [i \in 1..Len(d) |-> d[i][1]]
DictHas(d, k) == \E i \in 1..Len(d) : d[i][1] = k
DictGet(d, k) == d[CHOOSE i \in 1..Len(d) : d[i][1] = k][2]
DictSet(d, k, v) ==
    IF DictHas(d, k)
    THEN [i \in 1..Len(d) |-> IF d[i][1] = k THEN <<k, v>> ELSE d[i]]
    ELSE Append(d, <<k, v>>)
DictWithout(d, k) == SelectSeq(d, LAMBDA e : e[1] # k)

\* d.update(e), e with one entry per key: the keys of d keep their places and
\* take e's values, the new keys of e follow in e's order
DictUpdate(d, e) ==
    [i \in 1..Len(d) |->
        IF DictHas(e, d[i][1]) THEN <<d[i][1], DictGet(e, d[i][1])>> ELSE d[i]]
    \o SelectSeq(e, LAMBDA x : ~DictHas(d, x[1]))

\* a dictionary keyed by connections, as a function
FnWithout(f, k) == [x \in DOMAIN f \ {k} |-> f[x]]
FnSet(f, k, v) == [x \in DOMAIN f \cup {k} |-> IF x = k THEN v ELSE f[x]]
FnUpdate(f, g) == [x \in DOMAIN f \cup DOMAIN g |-> IF x \in DOMAIN g THEN g[x] ELSE f[x]]
EmptyFn == [x \in {} |-> None]

----------------------------------------------------------------------------
(* Room.py *)

max_players == 2

is_same_socket(socket1, socket2) == socket1 = socket2

EmptyMatrix == <<<<0, 0, 0>>, <<0, 0, 0>>, <<0, 0, 0>>>>

\* Room.__init__ with has_began set from the start
RoomBegun(sender_socket) ==
    [players |-> <<sender_socket>>,
     viewers |-> <<>>,
     matrix |-> EmptyMatrix,
     current_player |-> 0,
     has_end |-> FALSE,
     status_code |-> "3",
     has_began |-> TRUE]

\* Room.__init__: current_player is the object players[0]; the model keeps
\* the slot whose object it is (the code compares the objects by identity).
Room(sender_socket) ==
    [players |-> <<sender_socket>>,
     viewers |-> <<>>,
     matrix |-> EmptyMatrix,
     current_player |-> 0,
     has_end |-> FALSE,
     status_code |-> "3",
     has_began |-> FALSE]

\* a Python list index: i < 0 counts from the end
PyIndexOk(i, n) == -n <= i /\ i < n
PyIndex(i, n) == IF i >= 0 THEN i + 1 ELSE n + i + 1

\* A message is the sequence of its fields, which ":" separates on the wire.
Ack(command, code) == <<command, "ACKSTATUS", code>>

join(self, mode) ==
    IF mode = "PLAYER"
    THEN IF Len(self.players) < max_players
         THEN Ack("JOIN", "0")
         ELSE Ack("JOIN", "2")
    ELSE Ack("JOIN", "0")

check_rows(m) ==
    \E r \in 1..3 : m[r][1] = m[r][2] /\ m[r][2] = m[r][3] /\ m[r][1] # 0

check_columns(m) ==
    \E c \in 1..3 : m[1][c] = m[2][c] /\ m[2][c] = m[3][c] /\ m[1][c] # 0

check_diagonals(m) ==
    \/ (m[1][1] = m[2][2] /\ m[2][2] = m[3][3] /\ m[1][1] # 0)
    \/ (m[1][3] = m[2][2] /\ m[2][2] = m[3][1] /\ m[1][3] # 0)

is_board_full(m) == \A r \in 1..3 : \A c \in 1..3 : m[r][c] # 0

\* check_end_status that takes two lines at once for no win
check_end_status_one_line(self) ==
    LET m == self.matrix
        rows == {r \in 1..3 : m[r][1] = m[r][2] /\ m[r][2] = m[r][3] /\ m[r][1] # 0}
        columns == {c \in 1..3 : m[1][c] = m[2][c] /\ m[2][c] = m[3][c] /\ m[1][c] # 0}
        down == IF m[1][1] = m[2][2] /\ m[2][2] = m[3][3] /\ m[1][1] # 0 THEN 1 ELSE 0
        up == IF m[1][3] = m[2][2] /\ m[2][2] = m[3][1] /\ m[1][3] # 0 THEN 1 ELSE 0
    IN  IF Cardinality(rows) + Cardinality(columns) + down + up = 1
        THEN [self EXCEPT !.status_code = "0", !.has_end = TRUE]
        ELSE IF is_board_full(m)
             THEN [self EXCEPT !.status_code = "1", !.has_end = TRUE]
             ELSE self

check_end_status(self) ==
    IF check_rows(self.matrix) \/ check_columns(self.matrix)
          \/ check_diagonals(self.matrix)
    THEN [self EXCEPT !.status_code = "0", !.has_end = TRUE]
    ELSE IF is_board_full(self.matrix)
         THEN [self EXCEPT !.status_code = "1", !.has_end = TRUE]
         ELSE self

Digit(n) == CASE n = 0 -> "0" [] n = 1 -> "1" [] n = 2 -> "2"

\* get_matrix_in_string that goes through the matrix column after column
get_matrix_in_string_by_columns(self) ==
    LET m == self.matrix
        colstr(c) == Digit(m[1][c]) \o Digit(m[2][c]) \o Digit(m[3][c])
    IN  colstr(1) \o colstr(2) \o colstr(3)

get_matrix_in_string(self) ==
    LET m == self.matrix
        rowstr(r) == Digit(m[r][1]) \o Digit(m[r][2]) \o Digit(m[r][3])
    IN  rowstr(1) \o rowstr(2) \o rowstr(3)

\* get_current_player that returns the player of slot 0 at every turn
get_first_player(self) == self.players[1]

get_current_player(self) ==
    IF self.current_player = 0 THEN self.players[1] ELSE self.players[2]

\* players[1] of a room with one player raises IndexError
get_next_turn_player_raises(self) ==
    self.current_player = 0 /\ Len(self.players) < 2

\* get_next_turn_player that returns the current player
get_next_turn_player_current(self) ==
    IF self.current_player = 0 THEN self.players[1] ELSE self.players[2]

get_next_turn_player(self) ==
    IF self.current_player = 0 THEN self.players[2] ELSE self.players[1]

update_matrix_raises(self, row, column) ==
    \/ ~PyIndexOk(row, 3)
    \/ ~PyIndexOk(column, 3)
    \/ (self.current_player = 0 /\ Len(self.players) < 2)

update_matrix(self, row, column) ==
    LET r == PyIndex(row, 3)
        c == PyIndex(column, 3)
        mark == IF self.current_player = 0 THEN 1 ELSE 2
        next == IF self.current_player = 0 THEN 1 ELSE 0
    IN  check_end_status(
            [self EXCEPT !.matrix[r][c] = mark, !.current_player = next])

\* update without the test of len(self.players)
update_without_limit(self, sender_socket, mode) ==
    IF mode = "PLAYER"
    THEN [self EXCEPT !.players = Append(@, sender_socket), !.has_began = TRUE]
    ELSE IF mode = "VIEWER"
         THEN [self EXCEPT !.viewers = Append(@, sender_socket)]
         ELSE self

update(self, sender_socket, mode) ==
    IF mode = "PLAYER"
    THEN IF Len(self.players) < max_players
         THEN [self EXCEPT !.players = Append(@, sender_socket),
                           !.has_began = TRUE]
         ELSE self
    ELSE IF mode = "VIEWER"
         THEN [self EXCEPT !.viewers = Append(@, sender_socket)]
         ELSE self

get_another_player_raises(self, sender_socket) == Len(self.players) < 2

get_another_player(self, sender_socket) ==
    IF is_same_socket(self.players[1], sender_socket)
    THEN self.players[2]
    ELSE self.players[1]

\* able_to_add_player that does not count the players
always_able_to_add_player(self) == TRUE

able_to_add_player(self) == Len(self.players) < max_players

in_room_as_a_player(self, sender_socket) ==
    \E i \in 1..Len(self.players) : is_same_socket(self.players[i], sender_socket)

\* send_to_all_viewers: one sendall per entry of the viewers list
ViewerSends(self, message) ==
    [i \in 1..Len(self.viewers) |-> [to |-> self.viewers[i], msg |-> message]]

----------------------------------------------------------------------------
(* server.py: the handler of one connection.  A step of a handler is a     *)
(* function from the state s (the shared dictionaries, every handler's     *)
(* position and locals, the sends so far) to the next state.               *)

Idle == [msg |-> <<>>, roomname |-> None, room |-> Room(NoConn),
         text |-> <<>>, snap |-> <<>>, peer |-> NoConn]

Sendall(to, message) == <<[to |-> to, msg |-> message]>>

\* the handler of c moves to label, with new locals, having sent sends
Goto(s, c, label, newloc, sends) ==
    [s EXCEPT !.pc[c] = label, !.loc[c] = newloc, !.out = @ \o sends]

\* handle_message returns: back to recv
Return(s, c, sends) == Goto(s, c, "recv", Idle, sends)

\* an exception leaves handle_message: only ConnectionResetError and
\* ConnectionAbortedError are caught, and the finally block runs in every case
Raise(s, c, sends) == Goto(s, c, "fin1", Idle, sends)

\* an exception inside the finally block, or its end: the process ends
Die(s, c, sends) == Goto(s, c, "dead", Idle, sends)

\* the username bound to a socket: the loops over authenticated_clients
\* that compare get_key_by_value(authenticated_clients, user) with the socket
HasUser(auth, sock) == sock \in DOMAIN auth
UserOf(auth, sock) == auth[sock]

check_authorizations(sender_socket, auth) ==
    \E old_socket \in DOMAIN auth : is_same_socket(old_socket, sender_socket)

\* handle_message that asks for a login before REGISTER too
handle_message_login_only(s, c) ==
    LET cmd == s.loc[c].msg[1]
    IN  IF cmd = "LOGIN"
        THEN Goto(s, c, "login1", s.loc[c], <<>>)
        ELSE IF ~check_authorizations(c, s.auth)
        THEN Return(s, c, Sendall(c, <<"BADAUTH">>))
        ELSE Goto(s, c,
                  CASE cmd = "REGISTER" -> "register1"
                    [] cmd = "ROOMLIST" -> "roomlist1"
                    [] cmd = "CREATE" -> "create1"
                    [] cmd = "JOIN" -> "join1"
                    [] OTHER -> "find1",
                  s.loc[c], <<>>)

\* handle_message: LOGIN and REGISTER first, then the test of the login
handle_message(s, c) ==
    LET cmd == s.loc[c].msg[1]
    IN  IF cmd = "LOGIN"
        THEN Goto(s, c, "login1", s.loc[c], <<>>)
        ELSE IF cmd = "REGISTER"
        THEN Goto(s, c, "register1", s.loc[c], <<>>)
        ELSE IF ~check_authorizations(c, s.auth)
        THEN Return(s, c, Sendall(c, <<"BADAUTH">>))
        ELSE Goto(s, c,
                  CASE cmd = "ROOMLIST" -> "roomlist1"
                    [] cmd = "CREATE" -> "create1"
                    [] cmd = "JOIN" -> "join1"
                    [] OTHER -> "find1",
                  s.loc[c], <<>>)

login(s, c) ==
    LET args == Tail(s.loc[c].msg)
        username == args[1]
        password == args[2]
        here == s.pc[c]
    IN  CASE here = "login1" ->
              IF Len(args) # 2 \/ args[1] = "" \/ args[2] = ""
              THEN Return(s, c, Sendall(c, Ack("LOGIN", "3")))
              ELSE IF username \notin DOMAIN s.users
              THEN Return(s, c, Sendall(c, Ack("LOGIN", "1")))
              ELSE IF password # s.users[username]
              THEN Return(s, c, Sendall(c, Ack("LOGIN", "2")))
              ELSE Goto(s, c, "login2", s.loc[c], <<>>)
          \* for used_username in authenticated_clients.values()
          [] here = "login2" ->
              IF \E k \in DOMAIN s.auth : s.auth[k] = username
              THEN Return(s, c, Sendall(c, Ack("LOGIN", "4")))
              ELSE Goto(s, c, "login3", s.loc[c], <<>>)
          [] here = "login3" ->
              IF check_authorizations(c, s.auth)
              THEN Return(s, c, Sendall(c, Ack("LOGIN", "5")))
              ELSE Goto(s, c, "login4", s.loc[c], Sendall(c, Ack("LOGIN", "0")))
          \* authenticated_clients[sender_socket] = username
          [] here = "login4" ->
              [Return(s, c, <<>>) EXCEPT !.auth = FnSet(s.auth, c, username)]

register(s, c) ==
    LET args == Tail(s.loc[c].msg)
        username == args[1]
        password == args[2]
        here == s.pc[c]
    IN  CASE here = "register1" ->
              IF Len(args) # 2 \/ args[1] = "" \/ args[2] = ""
              THEN Return(s, c, Sendall(c, Ack("REGISTER", "2")))
              ELSE IF username \in DOMAIN s.users
              THEN Return(s, c, Sendall(c, Ack("REGISTER", "1")))
              ELSE Goto(s, c, "register2", s.loc[c], <<>>)
          \* users[username] = hash_password(password)
          [] here = "register2" ->
              [Return(s, c, Sendall(c, Ack("REGISTER", "0"))) EXCEPT
                  !.users = FnSet(s.users, username, password)]

\* ','.join(rooms_name_list)
RECURSIVE JoinComma(_)
JoinComma(names) ==
    IF names = <<>> THEN ""
    ELSE IF Len(names) = 1 THEN names[1]
    ELSE names[1] \o "," \o JoinComma(Tail(names))

room_list(s, c) ==
    LET args == Tail(s.loc[c].msg)
        client_type == args[1]
        open == SelectSeq(s.rooms, LAMBDA e : able_to_add_player(e[2]))
        rooms_name_list ==
            IF client_type = "VIEWER" THEN DictKeys(s.rooms) ELSE DictKeys(open)
    IN  IF Len(args) # 1 \/ (args[1] # "PLAYER" /\ args[1] # "VIEWER")
        THEN Return(s, c, Sendall(c, Ack("ROOMLIST", "1")))
        ELSE Return(s, c, Sendall(c, <<"ROOMLIST", "ACKSTATUS", "0",
                                       JoinComma(rooms_name_list)>>))

\* re.match(r'^[a-zA-Z0-9 _-]{1,20}$', room_name): the length is counted;
\* OtherCharacters are the names, of those the clients send, that hold a
\* character outside the class
IllegalName == "bad!name"
LongName == "aaaaaaaaaaaaaaaaaaaaa"
OtherCharacters == {IllegalName}

\* check_legal_room_name that does not count the characters
check_legal_room_name_any_length(room_name) == room_name \notin OtherCharacters

check_legal_room_name(room_name) ==
    Len(room_name) \in 1..20 /\ room_name \notin OtherCharacters

RoomCap == 256

\* clients.items() without the sender's entries, plus one new entry
NewClients(snapshot, sender_socket, value) ==
    FnSet(FnWithout(snapshot, sender_socket), sender_socket, value)

create_room(s, c) ==
    LET args == Tail(s.loc[c].msg)
        new_room_name == args[1]
        here == s.pc[c]
    IN  CASE here = "create1" ->
              IF Len(args) # 1
              THEN Return(s, c, Sendall(c, Ack("CREATE", "4")))
              ELSE IF ~check_legal_room_name(new_room_name)
              THEN Return(s, c, Sendall(c, Ack("CREATE", "1")))
              ELSE IF DictHas(s.rooms, new_room_name)
              THEN Return(s, c, Sendall(c, Ack("CREATE", "2")))
              ELSE Goto(s, c, "create2", s.loc[c], <<>>)
          [] here = "create2" ->
              IF Len(s.rooms) = RoomCap
              THEN Return(s, c, Sendall(c, Ack("CREATE", "3")))
              ELSE Goto(s, c, "create3", s.loc[c], Sendall(c, Ack("CREATE", "0")))
          \* rooms[new_room_name] = Room(sender_socket)
          [] here = "create3" ->
              [Goto(s, c, "create4", s.loc[c], <<>>) EXCEPT
                  !.rooms = DictSet(s.rooms, new_room_name, Room(c)),
                  !.ended[new_room_name] = {},
                  !.placer[new_room_name] = NoConn]
          [] here = "create4" ->
              Goto(s, c, "create5",
                   [s.loc[c] EXCEPT !.snap = NewClients(s.clients, c, new_room_name)],
                   <<>>)
          [] here = "create5" ->
              [Goto(s, c, "create6", s.loc[c], <<>>) EXCEPT !.clients = EmptyFn]
          [] here = "create6" ->
              [Return(s, c, <<>>) EXCEPT
                  !.clients = FnUpdate(s.clients, s.loc[c].snap)]

join_room(s, c) ==
    LET args == Tail(s.loc[c].msg)
        room_name == args[1]
        user_type == args[2]
        found == DictHas(s.rooms, room_name)
        copy == DictGet(s.rooms, room_name)
        l == s.loc[c]
        here == s.pc[c]
    IN  CASE here = "join1" ->
              IF Len(args) # 2 \/ (args[2] # "VIEWER" /\ args[2] # "PLAYER")
              THEN Return(s, c, Sendall(c, Ack("JOIN", "3")))
              ELSE IF ~found
              THEN Return(s, c, Sendall(c, Ack("JOIN", "1")))
              ELSE Goto(s, c, "join2", l, <<>>)
          \* message_from_room = rooms.get(room_name).join(user_type)
          [] here = "join2" ->
              IF ~found
              THEN Raise(s, c, <<>>)
              ELSE Goto(s, c, "join3", [l EXCEPT !.text = join(copy, user_type)], <<>>)
          \* rooms.get(room_name).update(sender_socket, user_type)
          [] here = "join3" ->
              IF ~found
              THEN Raise(s, c, <<>>)
              ELSE Goto(s, c, "join4",
                        [l EXCEPT !.room = update(copy, c, user_type)], <<>>)
          \* rooms[room_name] = ...; sender_socket.sendall(message_from_room)
          [] here = "join4" ->
              [Goto(s, c, "join5", l, Sendall(c, l.text)) EXCEPT
                  !.rooms = DictSet(s.rooms, room_name, l.room)]
          [] here = "join5" ->
              IF l.text # Ack("JOIN", "0")
              THEN Return(s, c, <<>>)
              ELSE IF ~found
              THEN Raise(s, c, <<>>)
              ELSE IF able_to_add_player(copy)
              THEN Return(s, c, <<>>)
              ELSE Goto(s, c, IF user_type = "PLAYER" THEN "join6" ELSE "join12",
                        l, <<>>)
          \* another_player = rooms.get(room_name).get_another_player(sender_socket)
          [] here = "join6" ->
              IF ~found \/ get_another_player_raises(copy, c)
              THEN Raise(s, c, <<>>)
              ELSE Goto(s, c, "join7",
                        [l EXCEPT !.peer = get_another_player(copy, c)], <<>>)
          \* player_1, player_2 and the two BEGIN messages
          [] here = "join7" ->
              LET another_player == l.peer
              IN  IF ~HasUser(s.auth, another_player) \/ ~HasUser(s.auth, c)
                     \/ is_same_socket(another_player, c)
                  THEN Raise(s, c, <<>>)
                  ELSE LET names == <<UserOf(s.auth, another_player),
                                         UserOf(s.auth, c)>>
                       IN  Goto(s, c, "join8", [l EXCEPT !.text = names],
                                Sendall(another_player, <<"BEGIN">> \o names)
                                \o Sendall(c, <<"BEGIN">> \o names))
          [] here = "join8" ->
              IF ~found
              THEN Raise(s, c, <<>>)
              ELSE Goto(s, c, "join9", l, ViewerSends(copy, <<"INPROGRESS">> \o l.text))
          [] here = "join9" ->
              Goto(s, c, "join10",
                   [l EXCEPT !.snap = NewClients(s.clients, c, room_name)], <<>>)
          [] here = "join10" ->
              [Goto(s, c, "join11", l, <<>>) EXCEPT !.clients = EmptyFn]
          [] here = "join11" ->
              [Return(s, c, <<>>) EXCEPT !.clients = FnUpdate(s.clients, l.snap)]
          \* a viewer of a full room: current_player and next_player
          [] here = "join12" ->
              IF ~found \/ get_next_turn_player_raises(copy)
              THEN Raise(s, c, <<>>)
              ELSE Goto(s, c, "join13", [l EXCEPT !.room = copy], <<>>)
          [] here = "join13" ->
              LET current_player == get_current_player(l.room)
                  next_player == get_next_turn_player(l.room)
              IN  IF ~HasUser(s.auth, current_player) \/ ~HasUser(s.auth, next_player)
                     \/ is_same_socket(current_player, next_player)
                  THEN Raise(s, c, <<>>)
                  ELSE Return(s, c, Sendall(c, <<"INPROGRESS",
                              UserOf(s.auth, current_player),
                              UserOf(s.auth, next_player)>>))

\* the loop over rooms.keys() without its test of the players
AllRooms(d, sender_socket) == {i \in 1..Len(d) : TRUE}

\* handle_message's loop over rooms.keys(): the last room, in the dictionary's
\* order, that has the sender among its players
PlayerRooms(d, sender_socket) ==
    {i \in 1..Len(d) : in_room_as_a_player(d[i][2], sender_socket)}

LastPlayerRoom(d, sender_socket) ==
    LET S == PlayerRooms(d, sender_socket)
    IN  d[CHOOSE i \in S : \A j \in S : j <= i][1]

\* handle_message, any command but LOGIN, REGISTER, ROOMLIST, CREATE, JOIN:
\* the room lookup and the wait for the sender's turn
wait_turn(s, c) ==
    LET l == s.loc[c]
        roomname == l.roomname
        found == DictHas(s.rooms, roomname)
        copy == DictGet(s.rooms, roomname)
        cmd == l.msg[1]
        here == s.pc[c]
    IN  CASE here = "find1" ->
              IF PlayerRooms(s.rooms, c) = {}
              THEN Return(s, c, Sendall(c, <<"NOROOM">>))
              ELSE Goto(s, c, "find2",
                        [l EXCEPT !.roomname = LastPlayerRoom(s.rooms, c)], <<>>)
          [] here = "find2" ->
              IF ~found
              THEN Raise(s, c, <<>>)
              ELSE IF ~in_room_as_a_player(copy, c)
              THEN Return(s, c, <<>>)
              ELSE Goto(s, c, "spin1", l, <<>>)
          \* while not rooms[roomname].get_has_began() or ...
          [] here = "spin1" ->
              IF ~found
              THEN Raise(s, c, <<>>)
              ELSE IF ~copy.has_began
              THEN s
              ELSE Goto(s, c, "spin2", l, <<>>)
          \* ... not is_same_socket(rooms[roomname].get_current_player(), sender_socket)
          [] here = "spin2" ->
              IF ~found
              THEN Raise(s, c, <<>>)
              ELSE IF ~is_same_socket(get_current_player(copy), c)
              THEN Goto(s, c, "spin1", l, <<>>)
              ELSE IF cmd = "PLACE"
              THEN Goto(s, c, "place1", l, <<>>)
              ELSE IF cmd = "FORFEIT"
              THEN Goto(s, c, "forfeit1", l, <<>>)
              ELSE Return(s, c, <<>>)

\* new_clients of place, forfeit and handle_client: the entries of the two
\* players reset to None
EndClients(snapshot, sender_socket, another_player) ==
    FnSet(FnSet(FnWithout(FnWithout(snapshot, sender_socket), another_player),
                sender_socket, None),
          another_player, None)

\* a GAMEEND text has been produced for the room
Produced(s, roomname, text) ==
    IF roomname \in DOMAIN s.ended
    THEN [s EXCEPT !.ended[roomname] = @ \cup {text}]
    ELSE s

place(s, c) ==
    LET l == s.loc[c]
        splited_message == l.msg
        roomname == l.roomname
        found == DictHas(s.rooms, roomname)
        copy == DictGet(s.rooms, roomname)
        here == s.pc[c]
    IN  CASE here = "place1" ->
              IF Len(splited_message) < 3 \/ ~found
              THEN Raise(s, c, <<>>)
              ELSE LET row == splited_message[3]
                       column == splited_message[2]
                   IN  IF update_matrix_raises(copy, row, column)
                       THEN Raise(s, c, <<>>)
                       ELSE Goto(s, c, "place2",
                                 [l EXCEPT !.room = update_matrix(copy, row, column)],
                                 <<>>)
          \* rooms[roomname] = ...
          [] here = "place2" ->
              [Goto(s, c, "place3", l, <<>>) EXCEPT
                  !.rooms = DictSet(s.rooms, roomname, l.room),
                  !.placer[roomname] = c]
          \* board_status
          [] here = "place3" ->
              IF ~found
              THEN Raise(s, c, <<>>)
              ELSE IF ~copy.has_end
              THEN Goto(s, c, "place4",
                        [l EXCEPT !.text =
                            <<"BOARDSTATUS", get_matrix_in_string(copy)>>], <<>>)
              ELSE LET status_code == copy.status_code
                       head == <<"GAMEEND", get_matrix_in_string(copy), status_code>>
                       winner == get_next_turn_player(copy)
                   IN  IF status_code # "0"
                       THEN Produced(Goto(s, c, "place4", [l EXCEPT !.text = head],
                                          <<>>),
                                     roomname, head)
                       ELSE IF get_next_turn_player_raises(copy)
                               \/ ~HasUser(s.auth, winner)
                       THEN Raise(s, c, <<>>)
                       ELSE LET text == Append(head, UserOf(s.auth, winner))
                            IN  Produced(Goto(s, c, "place4",
                                              [l EXCEPT !.text = text], <<>>),
                                         roomname, text)
          \* the three sends
          [] here = "place4" ->
              IF ~found \/ get_another_player_raises(copy, c)
              THEN Raise(s, c, Sendall(c, l.text))
              ELSE Goto(s, c, "place5", l,
                        Sendall(c, l.text)
                        \o Sendall(get_another_player(copy, c), l.text)
                        \o ViewerSends(copy, l.text))
          \* if rooms[roomname].get_has_end(): new_clients
          [] here = "place5" ->
              IF ~found
              THEN Raise(s, c, <<>>)
              ELSE IF ~copy.has_end
              THEN Return(s, c, <<>>)
              ELSE IF get_another_player_raises(copy, c)
              THEN Raise(s, c, <<>>)
              ELSE Goto(s, c, "end1",
                        [l EXCEPT !.snap =
                            EndClients(s.clients, c, get_another_player(copy, c))],
                        <<>>)

forfeit(s, c) ==
    LET l == s.loc[c]
        roomname == l.roomname
        found == DictHas(s.rooms, roomname)
        copy == DictGet(s.rooms, roomname)
        here == s.pc[c]
    IN  CASE here = "forfeit1" ->
              IF ~found \/ get_next_turn_player_raises(copy)
              THEN Raise(s, c, <<>>)
              ELSE LET head == <<"GAMEEND", get_matrix_in_string(copy), "2">>
                       winner == get_next_turn_player(copy)
                       text == IF HasUser(s.auth, winner)
                               THEN Append(head, UserOf(s.auth, winner))
                               ELSE Append(head, "")
                   IN  Produced(Goto(s, c, "forfeit2", [l EXCEPT !.text = text], <<>>),
                                roomname, text)
          [] here = "forfeit2" ->
              IF ~found \/ get_another_player_raises(copy, c)
              THEN Raise(s, c, Sendall(c, l.text))
              ELSE Goto(s, c, "forfeit3", l,
                        Sendall(c, l.text)
                        \o Sendall(get_another_player(copy, c), l.text)
                        \o ViewerSends(copy, l.text))
          [] here = "forfeit3" ->
              IF ~found \/ get_another_player_raises(copy, c)
              THEN Raise(s, c, <<>>)
              ELSE Goto(s, c, "end1",
                        [l EXCEPT !.snap =
                            EndClients(s.clients, c, get_another_player(copy, c))],
                        <<>>)

\* the end of place and of forfeit: clients and rooms are rebuilt by
\* clear() and update()
end_match(s, c) ==
    LET l == s.loc[c]
        here == s.pc[c]
    IN  CASE here = "end1" ->
              [Goto(s, c, "end2", l, <<>>) EXCEPT !.clients = EmptyFn]
          [] here = "end2" ->
              [Goto(s, c, "end3", l, <<>>) EXCEPT
                  !.clients = FnUpdate(s.clients, l.snap)]
          [] here = "end3" ->
              Goto(s, c, "end4",
                   [l EXCEPT !.snap = DictWithout(s.rooms, l.roomname)], <<>>)
          [] here = "end4" ->
              [Goto(s, c, "end5", l, <<>>) EXCEPT !.rooms = <<>>]
          [] here = "end5" ->
              [Return(s, c, <<>>) EXCEPT !.rooms = DictUpdate(s.rooms, l.snap)]

\* handle_client's finally block
teardown(s, c) ==
    LET l == s.loc[c]
        room_need_to_be_closed == l.roomname
        found == DictHas(s.rooms, room_need_to_be_closed)
        copy == DictGet(s.rooms, room_need_to_be_closed)
        here == s.pc[c]
    IN  CASE here = "fin1" ->
              Goto(s, c, "fin2", [l EXCEPT !.snap = FnWithout(s.auth, c)], <<>>)
          [] here = "fin2" ->
              [Goto(s, c, "fin3", l, <<>>) EXCEPT !.auth = EmptyFn]
          [] here = "fin3" ->
              [Goto(s, c, "fin4", l, <<>>) EXCEPT !.auth = FnUpdate(s.auth, l.snap)]
          \* room_need_to_be_closed
          [] here = "fin4" ->
              Goto(s, c, "fin5",
                   [l EXCEPT !.roomname =
                       IF c \in DOMAIN s.clients THEN s.clients[c] ELSE None],
                   <<>>)
          [] here = "fin5" ->
              IF room_need_to_be_closed = None
              THEN Goto(s, c, "fin16", l, <<>>)
              ELSE IF ~found
              THEN Die(s, c, <<>>)
              ELSE IF ~able_to_add_player(copy) /\ in_room_as_a_player(copy, c)
              THEN Goto(s, c, "fin6", l, <<>>)
              ELSE IF in_room_as_a_player(copy, c)
              THEN Goto(s, c, "fin15", l, <<>>)
              ELSE Goto(s, c, "fin16", l, <<>>)
          \* winner = rooms[room_need_to_be_closed].get_another_player(client_socket)
          [] here = "fin6" ->
              IF ~found \/ get_another_player_raises(copy, c)
              THEN Die(s, c, <<>>)
              ELSE Goto(s, c, "fin7",
                        [l EXCEPT !.peer = get_another_player(copy, c)], <<>>)
          \* winner_name
          [] here = "fin7" ->
              IF ~HasUser(s.auth, l.peer)
              THEN Die(s, c, <<>>)
              ELSE Goto(s, c, "fin8", [l EXCEPT !.text = <<UserOf(s.auth, l.peer)>>],
                        <<>>)
          \* gameend_forfeit_message and its sends
          [] here = "fin8" ->
              IF ~found \/ get_another_player_raises(copy, c)
              THEN Die(s, c, <<>>)
              ELSE LET gameend_forfeit_message ==
                           <<"GAMEEND", get_matrix_in_string(copy), "2">> \o l.text
                   IN  Produced(Goto(s, c, "fin9", l,
                                     Sendall(get_another_player(copy, c),
                                             gameend_forfeit_message)
                                     \o ViewerSends(copy, gameend_forfeit_message)),
                                room_need_to_be_closed, gameend_forfeit_message)
          [] here = "fin9" ->
              IF ~found \/ get_another_player_raises(copy, c)
              THEN Die(s, c, <<>>)
              ELSE Goto(s, c, "fin10",
                        [l EXCEPT !.snap =
                            EndClients(s.clients, c, get_another_player(copy, c))],
                        <<>>)
          [] here = "fin10" ->
              [Goto(s, c, "fin11", l, <<>>) EXCEPT !.clients = EmptyFn]
          [] here = "fin11" ->
              [Goto(s, c, "fin12", l, <<>>) EXCEPT
                  !.clients = FnUpdate(s.clients, l.snap)]
          \* my_dict; rooms.clear(); rooms.update(my_dict)
          [] here = "fin12" ->
              Goto(s, c, "fin13",
                   [l EXCEPT !.snap = DictWithout(s.rooms, room_need_to_be_closed)],
                   <<>>)
          [] here = "fin13" ->
              [Goto(s, c, "fin14", l, <<>>) EXCEPT !.rooms = <<>>]
          [] here = "fin14" ->
              [Goto(s, c, "fin16", l, <<>>) EXCEPT
                  !.rooms = DictUpdate(s.rooms, l.snap)]
          \* the only player of the room has quit
          [] here = "fin15" ->
              IF ~found
              THEN Die(s, c, <<>>)
              ELSE Goto(s, c, "fin12", l, ViewerSends(copy, <<"Room owner has quited.">>))
          \* new_clients; clients.clear(); clients.update(new_clients); close()
          [] here = "fin16" ->
              Goto(s, c, "fin17", [l EXCEPT !.snap = FnWithout(s.clients, c)], <<>>)
          [] here = "fin17" ->
              [Goto(s, c, "fin18", l, <<>>) EXCEPT !.clients = EmptyFn]
          [] here = "fin18" ->
              [Die(s, c, <<>>) EXCEPT !.clients = FnUpdate(s.clients, l.snap)]

LoginPcs == {"login1", "login2", "login3", "login4"}
RegisterPcs == {"register1", "register2"}
CreatePcs == {"create1", "create2", "create3", "create4", "create5", "create6"}
JoinPcs == {"join1", "join2", "join3", "join4", "join5", "join6", "join7", "join8",
            "join9", "join10", "join11", "join12", "join13"}
WaitPcs == {"find1", "find2", "spin1", "spin2"}
PlacePcs == {"place1", "place2", "place3", "place4", "place5"}
ForfeitPcs == {"forfeit1", "forfeit2", "forfeit3"}
EndPcs == {"end1", "end2", "end3", "end4", "end5"}
FinPcs == {"fin1", "fin2", "fin3", "fin4", "fin5", "fin6", "fin7", "fin8", "fin9",
           "fin10", "fin11", "fin12", "fin13", "fin14", "fin15", "fin16", "fin17",
           "fin18"}

\* the positions at which a handler waits: for a connection, for a message,
\* or for nothing any more
Waiting == {"new", "recv", "dead"}

\* the handler of c goes round the loop that waits for its turn
Spins(s, c) ==
    /\ s.pc[c] = "spin1"
    /\ DictHas(s.rooms, s.loc[c].roomname)
    /\ LET copy == DictGet(s.rooms, s.loc[c].roomname)
       IN  \/ ~copy.has_began
           \/ ~is_same_socket(get_current_player(copy), c)

\* one step of the handler of c: one access to a shared dictionary
handle_client(s, c) ==
    LET here == s.pc[c]
    IN  CASE here = "hm" -> handle_message(s, c)
          [] here \in LoginPcs -> login(s, c)
          [] here \in RegisterPcs -> register(s, c)
          [] here = "roomlist1" -> room_list(s, c)
          [] here \in CreatePcs -> create_room(s, c)
          [] here \in JoinPcs -> join_room(s, c)
          [] here \in WaitPcs -> wait_turn(s, c)
          [] here \in PlacePcs -> place(s, c)
          [] here \in ForfeitPcs -> forfeit(s, c)
          [] here \in EndPcs -> end_match(s, c)
          [] here \in FinPcs -> teardown(s, c)
          [] OTHER -> s

\* the handler of c run until it waits again
RECURSIVE RunToWait(_, _)
RunToWait(s, c) ==
    IF s.pc[c] \in Waiting \/ Spins(s, c)
    THEN s
    ELSE RunToWait(handle_client(s, c), c)

----------------------------------------------------------------------------
(* The state and the actions. *)

State ==
    [rooms |-> rooms, clients |-> clients, auth |-> authenticated_clients,
     users |-> users, pc |-> pc, loc |-> loc, ended |-> ended,
     placer |-> placer, out |-> <<>>]

\* the step of c that leads to state t
Becomes(c, t) ==
    /\ rooms' = t.rooms
    /\ clients' = t.clients
    /\ authenticated_clients' = t.auth
    /\ users' = t.users
    /\ pc' = t.pc
    /\ loc' = t.loc
    /\ ended' = t.ended
    /\ placer' = t.placer
    /\ sent' = t.out

\* main: accept, then handle_client's first statement
accepted(s, c) == [s EXCEPT !.pc[c] = "recv", !.clients = FnSet(s.clients, c, None)]

\* recv returns a message
received(s, c, m) ==
    [s EXCEPT !.pc[c] = "hm", !.loc[c] = [Idle EXCEPT !.msg = m]]

\* recv returns no data: the client has closed the connection
closed(s, c) == [s EXCEPT !.pc[c] = "fin1"]

NoMessage == <<"-">>

Init ==
    /\ rooms = <<>>
    /\ clients = EmptyFn
    /\ authenticated_clients = EmptyFn
    /\ users = [u \in Users |-> GoodPassword]
    /\ pc = [c \in Conns |-> "new"]
    /\ loc = [c \in Conns |-> Idle]
    /\ sent = <<>>
    /\ last = [conn |-> NoConn, msg |-> NoMessage]
    /\ ended = [r \in RoomNames |-> {}]
    /\ placer = [r \in RoomNames |-> NoConn]
    /\ todo = [c \in Conns |-> <<>>]

----------------------------------------------------------------------------
(* The messages the clients send. *)

Login(u, p) == <<"LOGIN", u, p>>
Create(r) == <<"CREATE", r>>
Join(r, mode) == <<"JOIN", r, mode>>
Place(column, row) == <<"PLACE", column, row>>
Forfeit == <<"FORFEIT">>

Marks(m) == Cardinality({rc \in (1..3) \X (1..3) : m[rc[1]][rc[2]] # 0})

\* the model's bounds on what the client of c sends
Offered(c, m) ==
    /\ m[1] = "PLACE" =>
          \A i \in PlayerRooms(rooms, c) : Marks(rooms[i][2].matrix) < MaxMarks
    /\ (m[1] = "JOIN" /\ m[3] = "VIEWER" /\ DictHas(rooms, m[2]))
           => Len(DictGet(rooms, m[2]).viewers) < MaxViewers

----------------------------------------------------------------------------
(* Sequential runs: a handler that has a message to serve, or whose turn   *)
(* has come, runs until it waits again before any other handler steps.     *)

Accept(c) ==
    /\ pc[c] = "new"
    /\ Becomes(c, accepted(State, c))
    /\ last' = [conn |-> c, msg |-> NoMessage]
    /\ UNCHANGED todo

Serve(c, m) ==
    /\ pc[c] = "recv"
    /\ Offered(c, m)
    /\ Becomes(c, RunToWait(received(State, c, m), c))
    /\ last' = [conn |-> c, msg |-> m]
    /\ UNCHANGED todo

\* the handler that waits for its turn goes on
Resume(c) ==
    /\ pc[c] = "spin1"
    /\ ~Spins(State, c)
    /\ Becomes(c, RunToWait(State, c))
    /\ last' = [conn |-> c, msg |-> loc[c].msg]
    /\ UNCHANGED todo

Close(c) ==
    /\ pc[c] = "recv"
    /\ Becomes(c, RunToWait(closed(State, c), c))
    /\ last' = [conn |-> c, msg |-> <<"close">>]
    /\ UNCHANGED todo

\* One match: c1 creates the room, c2 joins it as a player, c3 comes third.
SomePlaces == {Place(0, 0), Place(0, -1), Place(3, 0)}

Script(c) ==
    CASE c = "c1" -> {Login("u1", GoodPassword), Create("r1"), Create("r2"), Forfeit}
                        \cup SomePlaces
      [] c = "c2" -> {Login("u2", GoodPassword), Join("r1", "PLAYER"), Forfeit}
                        \cup SomePlaces
      [] c = "c3" -> {Login("u3", GoodPassword),
                      Join("r1", "PLAYER"), Join("r1", "VIEWER")}

Next ==
    \E c \in Conns :
        \/ Accept(c)
        \/ \E m \in Script(c) : Serve(c, m)
        \/ Resume(c)
        \/ Close(c)

Spec == Init /\ [][Next]_vars

----------------------------------------------------------------------------
(* What a step of Spec has done, read from the states before and after it. *)

BoardMessage(message) == message[1] \in {"BOARDSTATUS", "GAMEEND"}

NoBoardMessage(out) == \A i \in 1..Len(out) : ~BoardMessage(out[i].msg)

\* the board messages among the sends out that went to the connection to
BoardMessagesTo(out, to) ==
    {i \in 1..Len(out) : out[i].to = to /\ BoardMessage(out[i].msg)}

\* the room of which c is a player, before the step
RoomOf(c) == DictGet(rooms, LastPlayerRoom(rooms, c))

\* the step runs place for c: c is logged in, is the current mover of its
\* room, which has begun, and its PLACE is served to the end
MoverPlaces(c) ==
    /\ last'.conn = c
    /\ last'.msg[1] = "PLACE"
    /\ pc[c] \in {"recv", "spin1"}
    /\ pc'[c] # "spin1"
    /\ check_authorizations(c, authenticated_clients)
    /\ PlayerRooms(rooms, c) # {}
    /\ RoomOf(c).has_began
    /\ Len(RoomOf(c).players) = 2
    /\ is_same_socket(get_current_player(RoomOf(c)), c)

InRange(m) == m[2] \in 0..2 /\ m[3] \in 0..2

\* the cell row m[3], column m[2] of the board of c's room, before the step
Target(c, m) == RoomOf(c).matrix[m[3] + 1][m[2] + 1]

\* C1: a cell of a room's board that is 1 or 2 keeps its value for as long
\* as the room exists.
MonotonicBoard ==
    [][\A r \in RoomNames :
          (DictHas(rooms, r) /\ DictHas(rooms', r)) =>
              \A i \in 1..3 : \A j \in 1..3 :
                  DictGet(rooms, r).matrix[i][j] # 0 =>
                      DictGet(rooms', r).matrix[i][j] = DictGet(rooms, r).matrix[i][j]
      ]_vars

\* C3: a PLACE of the current mover on an occupied cell changes nothing in
\* the rooms and sends no BOARDSTATUS and no GAMEEND.
OccupiedCellRejected ==
    [][\A c \in Conns :
          (MoverPlaces(c) /\ InRange(last'.msg) /\ Target(c, last'.msg) # 0) =>
              (rooms' = rooms /\ NoBoardMessage(sent'))
      ]_vars

\* C4: a PLACE of the current mover with a row or a column outside 0..2
\* changes nothing in the rooms, sends no BOARDSTATUS and no GAMEEND, and
\* leaves the sender connected, logged in and in its room.
OutOfRangeRejected ==
    [][\A c \in Conns :
          (MoverPlaces(c) /\ ~InRange(last'.msg)) =>
              /\ rooms' = rooms
              /\ NoBoardMessage(sent')
              /\ pc'[c] = "recv"
              /\ authenticated_clients' = authenticated_clients
              /\ clients' = clients
      ]_vars

\* the step joins c as a PLAYER to a room that has two players
JoinsFull(c) ==
    /\ last'.conn = c
    /\ last'.msg[1] = "JOIN"
    /\ Len(last'.msg) = 3
    /\ last'.msg[3] = "PLAYER"
    /\ pc[c] = "recv"
    /\ check_authorizations(c, authenticated_clients)
    /\ DictHas(rooms, last'.msg[2])
    /\ Len(DictGet(rooms, last'.msg[2]).players) = 2

\* C6: no room ever has more than 2 players, and a JOIN as PLAYER to a room
\* with 2 players is answered JOIN:ACKSTATUS:2, only that, and leaves the
\* room's player list as it was.
AtMostTwoPlayers ==
    /\ [](\A i \in 1..Len(rooms) : Len(rooms[i][2].players) <= 2)
    /\ [][\A c \in Conns :
             JoinsFull(c) =>
                 /\ sent' = Sendall(c, <<"JOIN", "ACKSTATUS", "2">>)
                 /\ DictHas(rooms', last'.msg[2])
                 /\ DictGet(rooms', last'.msg[2]).players
                        = DictGet(rooms, last'.msg[2]).players
        ]_vars

\* a third connection has just been refused as a player of a full room
ThirdPlayerRefused ==
    /\ last.conn \in Conns
    /\ last.msg[1] = "JOIN"
    /\ last.msg[3] = "PLAYER"
    /\ sent = Sendall(last.conn, <<"JOIN", "ACKSTATUS", "2">>)
    /\ DictHas(rooms, last.msg[2])
    /\ Len(DictGet(rooms, last.msg[2]).players) = 2
    /\ ~in_room_as_a_player(DictGet(rooms, last.msg[2]), last.conn)

\* the rooms, before the step, that have begun with c and another, logged-in
\* connection as their two players
MatchesOf(c) ==
    {i \in 1..Len(rooms) :
        /\ Len(rooms[i][2].players) = 2
        /\ rooms[i][2].has_began
        /\ in_room_as_a_player(rooms[i][2], c)
        /\ ~is_same_socket(get_another_player(rooms[i][2], c), c)
        /\ HasUser(authenticated_clients, get_another_player(rooms[i][2], c))}

\* C7: when the connection of a player of a begun 2-player room closes, the
\* other player and every viewer of the room get exactly one GAMEEND, which
\* is GAMEEND:<board>:2:<the other player's username>, and the room is removed.
DisconnectForfeits ==
    [][\A c \in Conns :
          (last'.conn = c /\ last'.msg = <<"close">> /\ pc[c] = "recv") =>
              \A i \in MatchesOf(c) :
                  LET room == rooms[i][2]
                      remaining == get_another_player(room, c)
                      text == <<"GAMEEND", get_matrix_in_string(room), "2",
                                UserOf(authenticated_clients, remaining)>>
                      audience == {remaining}
                                  \cup {room.viewers[k] : k \in 1..Len(room.viewers)}
                  IN  /\ \A v \in audience :
                             /\ Cardinality(BoardMessagesTo(sent', v)) = 1
                             /\ \A k \in BoardMessagesTo(sent', v) : sent'[k].msg = text
                      /\ ~DictHas(rooms', rooms[i][1])
      ]_vars

\* C8: a placement of the current mover on an empty cell in range sends
\* exactly one BOARDSTATUS or GAMEEND to the mover, to the other player and to
\* every viewer of the room, all with the same text, whose board is the board
\* with the new mark.
PlacementBroadcast ==
    [][\A c \in Conns :
          (MoverPlaces(c) /\ InRange(last'.msg) /\ Target(c, last'.msg) = 0) =>
              LET room == RoomOf(c)
                  after == update_matrix(room, last'.msg[3], last'.msg[2])
                  audience == {room.players[k] : k \in 1..Len(room.players)}
                              \cup {room.viewers[k] : k \in 1..Len(room.viewers)}
              IN  /\ \A v \in audience : Cardinality(BoardMessagesTo(sent', v)) = 1
                  /\ \A k \in 1..Len(sent') :
                         BoardMessage(sent'[k].msg) =>
                             /\ sent'[k].msg[2] = get_matrix_in_string(after)
                             /\ \A j \in 1..Len(sent') :
                                    BoardMessage(sent'[j].msg) =>
                                        sent'[j].msg = sent'[k].msg
      ]_vars

----------------------------------------------------------------------------
(* Room.check_end_status on every board: the room of a match between c1    *)
(* and c2 holds any 3x3 board over {0, 1, 2}, and check_end_status is      *)
(* called on it as update_matrix calls it.                                 *)

Rows == {<<a, b, c>> : a \in 0..2, b \in 0..2, c \in 0..2}
Boards == {<<top, middle, bottom>> : top \in Rows, middle \in Rows, bottom \in Rows}

InitEval ==
    /\ \E m \in Boards :
          rooms = <<<<"r1", [Room("c1") EXCEPT !.players = <<"c1", "c2">>,
                                               !.has_began = TRUE,
                                               !.matrix = m]>>>>
    /\ clients = [c \in Conns |-> IF c = "c3" THEN None ELSE "r1"]
    /\ authenticated_clients = [c \in Conns |->
                                   CASE c = "c1" -> "u1" [] c = "c2" -> "u2"
                                     [] OTHER -> "u3"]
    /\ users = [u \in Users |-> GoodPassword]
    /\ pc = [c \in Conns |-> "recv"]
    /\ loc = [c \in Conns |-> Idle]
    /\ sent = <<>>
    /\ last = [conn |-> NoConn, msg |-> NoMessage]
    /\ ended = [r \in RoomNames |-> {}]
    /\ placer = [r \in RoomNames |-> NoConn]
    /\ todo = [c \in Conns |-> <<>>]

Evaluate ==
    /\ last.msg = NoMessage
    /\ rooms' = <<<<"r1", check_end_status(rooms[1][2])>>>>
    /\ last' = [conn |-> NoConn, msg |-> <<"check_end_status">>]
    /\ UNCHANGED <<clients, authenticated_clients, users, pc, loc, sent, ended,
                   placer, todo>>

NextEval == Evaluate

SpecEval == InitEval /\ [][NextEval]_vars

Evaluated == last.msg = <<"check_end_status">>

\* the 8 lines of the board, each as its three cells
AllLines ==
    {{<<r, 1>>, <<r, 2>>, <<r, 3>>} : r \in 1..3}
    \cup {{<<1, c>>, <<2, c>>, <<3, c>>} : c \in 1..3}
    \cup {{<<1, 1>>, <<2, 2>>, <<3, 3>>}, {<<1, 3>>, <<2, 2>>, <<3, 1>>}}

\* the lines of m that hold three equal marks
UniformLines(m) ==
    {line \in AllLines :
        \E mark \in {1, 2} : \A cell \in line : m[cell[1]][cell[2]] = mark}

NoEmptyCell(m) == \A r \in 1..3 : \A c \in 1..3 : m[r][c] \in {1, 2}

Win(room) == room.status_code = "0" /\ room.has_end
Draw(room) == room.status_code = "1" /\ room.has_end
Ongoing(room) == room.status_code = "3" /\ ~room.has_end

\* C5, as the code decides it: the result is Win iff at least one of the 8
\* lines is uniformly non-empty, Draw iff the board has no empty cell and no
\* line matches, Ongoing otherwise, and it is exactly one of the three.
OutcomeEvaluation ==
    Evaluated =>
        LET room == rooms[1][2]
            n == Cardinality(UniformLines(room.matrix))
            full == NoEmptyCell(room.matrix)
        IN  /\ Win(room) <=> n >= 1
            /\ Draw(room) <=> (full /\ n = 0)
            /\ Ongoing(room) <=> (~full /\ n = 0)
            /\ Win(room) \/ Draw(room) \/ Ongoing(room)
            /\ ~(Win(room) /\ Draw(room))
            /\ ~(Win(room) /\ Ongoing(room))
            /\ ~(Draw(room) /\ Ongoing(room))

\* the board on which the first player's fifth mark, bottom left, has
\* completed a column and a row at once has been evaluated, and is a win
TwoLinesWin ==
    /\ Evaluated
    /\ rooms[1][2].matrix = <<<<1, 2, 2>>, <<1, 2, 2>>, <<1, 1, 1>>>>
    /\ Cardinality(UniformLines(rooms[1][2].matrix)) = 2
    /\ Win(rooms[1][2])

\* C5, as the claim has it: Win iff exactly one of the 8 lines is uniformly
\* non-empty, Draw iff no empty cell and no line, Ongoing otherwise.
OutcomeEvaluationExactlyOne ==
    Evaluated =>
        LET room == rooms[1][2]
            n == Cardinality(UniformLines(room.matrix))
            full == NoEmptyCell(room.matrix)
        IN  /\ Win(room) <=> n = 1
            /\ Draw(room) <=> (full /\ n = 0)
            /\ Ongoing(room) <=> ~(n = 1) /\ ~(full /\ n = 0)
            /\ Win(room) \/ Draw(room) \/ Ongoing(room)
            /\ ~(Win(room) /\ Draw(room))
            /\ ~(Win(room) /\ Ongoing(room))
            /\ ~(Draw(room) /\ Ongoing(room))

----------------------------------------------------------------------------
(* Concurrent runs: the handlers are processes, and between two accesses   *)
(* of one handler to the shared dictionaries the others may step.          *)

Recv(c, m) ==
    /\ pc[c] = "recv"
    /\ Offered(c, m)
    /\ Becomes(c, received(State, c, m))
    /\ last' = [conn |-> c, msg |-> m]
    /\ UNCHANGED todo

\* one step of handle_client; a round of the wait for the turn that changes
\* nothing is left out
Step(c) ==
    /\ pc[c] \notin Waiting
    /\ ~Spins(State, c)
    /\ Becomes(c, handle_client(State, c))
    /\ last' = [conn |-> c, msg |-> loc[c].msg]
    /\ UNCHANGED todo

Hangup(c) ==
    /\ pc[c] = "recv"
    /\ Becomes(c, closed(State, c))
    /\ last' = [conn |-> c, msg |-> <<"close">>]
    /\ UNCHANGED todo

\* Logins: the three connections log in, c1 and c2 as the same user.
LoginScript(c) ==
    CASE c = "c1" -> {Login("u1", GoodPassword), Login("u1", BadPassword)}
      [] c = "c2" -> {Login("u1", GoodPassword)}
      [] c = "c3" -> {Login("u3", GoodPassword)}

NextLogin ==
    \E c \in Conns :
        \/ Accept(c)
        \/ \E m \in LoginScript(c) : Recv(c, m)
        \/ Step(c)
        \/ Hangup(c)

SpecLogin == Init /\ [][NextLogin]_vars

\* a connection that is accepted and has not been closed
Live(c) == pc[c] \notin {"new", "dead"} \cup FinPcs

\* C10: a username is bound to at most one live connection, whatever the
\* order of the steps of the handlers that serve the LOGINs.
SingleLogin ==
    \A c \in Conns : \A d \in Conns :
        (/\ c # d
         /\ Live(c) /\ Live(d)
         /\ HasUser(authenticated_clients, c)
         /\ HasUser(authenticated_clients, d))
            => UserOf(authenticated_clients, c) # UserOf(authenticated_clients, d)

\* The three connections accepted and logged in, as u1, u2 and u3, each
\* client with its script to send.
InitLoggedIn(scripts) ==
    /\ rooms = <<>>
    /\ clients = [c \in Conns |-> None]
    /\ authenticated_clients = [c \in Conns |->
                                   CASE c = "c1" -> "u1" [] c = "c2" -> "u2"
                                     [] OTHER -> "u3"]
    /\ users = [u \in Users |-> GoodPassword]
    /\ pc = [c \in Conns |-> "recv"]
    /\ loc = [c \in Conns |-> Idle]
    /\ sent = <<>>
    /\ last = [conn |-> NoConn, msg |-> NoMessage]
    /\ ended = [r \in RoomNames |-> {}]
    /\ placer = [r \in RoomNames |-> NoConn]
    /\ todo = scripts

\* recv returns the next message of the client's script
RecvNext(c) ==
    /\ pc[c] = "recv"
    /\ todo[c] # <<>>
    /\ Becomes(c, received(State, c, Head(todo[c])))
    /\ last' = [conn |-> c, msg |-> Head(todo[c])]
    /\ todo' = [todo EXCEPT ![c] = Tail(@)]

\* A viewer comes while the match is played: c1 creates r1 and places twice,
\* c2 joins as a player, c3 as a viewer.
JoinScript(c) ==
    CASE c = "c1" -> <<Create("r1"), Place(0, 0), Place(1, 1)>>
      [] c = "c2" -> <<Join("r1", "PLAYER")>>
      [] c = "c3" -> <<Join("r1", "VIEWER")>>

NextJoin ==
    \E c \in Conns :
        \/ RecvNext(c)
        \/ Step(c)

SpecJoin ==
    InitLoggedIn([c \in Conns |-> JoinScript(c)]) /\ [][NextJoin]_vars

\* The match ends from both sides: c1 creates r1 and forfeits, c2 joins as a
\* player and hangs up at any time; c3 stays idle.
EndScript(c) ==
    CASE c = "c1" -> <<Create("r1"), Forfeit>>
      [] c = "c2" -> <<Join("r1", "PLAYER")>>
      [] c = "c3" -> <<>>

Leavers == {"c2"}

NextEnd ==
    \/ \E c \in Conns :
           \/ RecvNext(c)
           \/ Step(c)
    \/ \E c \in Leavers : Hangup(c)

SpecEnd ==
    InitLoggedIn([c \in Conns |-> EndScript(c)]) /\ [][NextEnd]_vars

\* C2: a placement that is written to a room leaves the turn to the other
\* player, and is not by the connection whose placement the room got last.
TurnAlternation ==
    [][\A c \in Conns :
          (last'.conn = c /\ pc[c] = "place2") =>
              LET r == loc[c].roomname
                  written == DictGet(rooms', r)
              IN  /\ ~is_same_socket(get_current_player(written), c)
                  /\ placer[r] # c
      ]_vars

\* C9: of one match, at most one GAMEEND text is ever produced.
MatchEndsOnce == \A r \in RoomNames : Cardinality(ended[r]) <= 1

----------------------------------------------------------------------------
(* Logins and registrations, one message served at a time: c1 sends every  *)
(* kind of message, logged in or not; c2 logs in as u2 and joins c1's      *)
(* room.                                                                   *)

Register(u, p) == <<"REGISTER", u, p>>
RoomList(mode) == <<"ROOMLIST", mode>>
NewUser == "u4"

AuthScript(c) ==
    CASE c = "c1" -> {Login("u1", GoodPassword), Login("u1", BadPassword),
                      Login("u2", GoodPassword), Login(NewUser, GoodPassword),
                      <<"LOGIN", "u1">>,
                      Register(NewUser, GoodPassword), Register("u1", GoodPassword),
                      <<"REGISTER", NewUser>>,
                      Create("r1"), RoomList("PLAYER"), Place(0, 0), Forfeit,
                      <<"HELLO">>}
      [] c = "c2" -> {Login("u2", GoodPassword), Join("r1", "PLAYER"), Forfeit}
      [] c = "c3" -> {}

NextAuth ==
    \E c \in Conns :
        \/ Accept(c)
        \/ \E m \in AuthScript(c) : Serve(c, m)
        \/ Resume(c)
        \/ Close(c)

SpecAuth == Init /\ [][NextAuth]_vars

\* the step serves a LOGIN of c with two fields, a registered username and
\* its password
ValidLogin(c) ==
    /\ last'.conn = c
    /\ pc[c] = "recv"
    /\ last'.msg[1] = "LOGIN"
    /\ Len(last'.msg) = 3
    /\ last'.msg[2] \in DOMAIN users
    /\ users[last'.msg[2]] = last'.msg[3]

\* the username is bound to a connection other than c
BoundElsewhere(username, c) ==
    \E d \in DOMAIN authenticated_clients :
        d # c /\ authenticated_clients[d] = username

\* C11: LOGIN:ACKSTATUS:4 answers a valid LOGIN only if the username is bound
\* to another connection than the sender; a sender that is logged in, and
\* asks for a username no other connection holds, its own included, gets
\* LOGIN:ACKSTATUS:5 and every binding stays as it was.
LoginFourOrFive ==
    [][\A c \in Conns :
          ValidLogin(c) =>
              /\ sent' = Sendall(c, Ack("LOGIN", "4"))
                    => BoundElsewhere(last'.msg[2], c)
              /\ (check_authorizations(c, authenticated_clients)
                     /\ ~BoundElsewhere(last'.msg[2], c))
                    => /\ sent' = Sendall(c, Ack("LOGIN", "5"))
                       /\ authenticated_clients' = authenticated_clients
      ]_vars

\* the step serves, for a connection c that is not logged in, a message
\* that is neither LOGIN nor REGISTER
Unauthorized(c) ==
    /\ last'.conn = c
    /\ pc[c] = "recv"
    /\ last'.msg[1] \notin {"LOGIN", "REGISTER", "close"}
    /\ ~check_authorizations(c, authenticated_clients)

\* the step serves a LOGIN or a REGISTER of c
Credentials(c) ==
    /\ last'.conn = c
    /\ pc[c] = "recv"
    /\ last'.msg[1] \in {"LOGIN", "REGISTER"}

\* C20: a message other than LOGIN and REGISTER from a connection that is
\* not logged in is answered BADAUTH and nothing else, changes no dictionary
\* and leaves the handler at recv; a LOGIN or a REGISTER is answered with its
\* own ACKSTATUS whether the sender is logged in or not, and a REGISTER of a
\* new username with a password stores it.
BadAuth ==
    [][\A c \in Conns :
          /\ Unauthorized(c) =>
                /\ sent' = Sendall(c, <<"BADAUTH">>)
                /\ pc'[c] = "recv"
                /\ UNCHANGED <<rooms, clients, authenticated_clients, users>>
          /\ Credentials(c) =>
                /\ Len(sent') = 1
                /\ sent'[1].to = c
                /\ Len(sent'[1].msg) = 3
                /\ sent'[1].msg[1] = last'.msg[1]
                /\ sent'[1].msg[2] = "ACKSTATUS"
                /\ pc'[c] = "recv"
                /\ (last'.msg = Register(NewUser, GoodPassword)
                       /\ NewUser \notin DOMAIN users)
                      => (sent' = Sendall(c, Ack("REGISTER", "0"))
                            /\ NewUser \in DOMAIN users')
      ]_vars

\* a connection that is not logged in has just been refused a CREATE
CreateRefused ==
    /\ last.conn \in Conns
    /\ last.msg = Create("r1")
    /\ ~check_authorizations(last.conn, authenticated_clients)
    /\ sent = Sendall(last.conn, <<"BADAUTH">>)
    /\ rooms = <<>>
    /\ pc[last.conn] = "recv"

----------------------------------------------------------------------------
(* The registry one room short of its cap: c3 has created 255 rooms, and   *)
(* the three connections are logged in.                                    *)

FillerName(i) == "room" \o ToString(i)
NearCap == RoomCap - 1
FilledRooms == [i \in 1..NearCap |-> <<FillerName(i), Room("c3")>>]

InitNearCap(scripts) ==
    /\ rooms = FilledRooms
    /\ clients = [c \in Conns |-> IF c = "c3" THEN FillerName(NearCap) ELSE None]
    /\ authenticated_clients = [c \in Conns |->
                                   CASE c = "c1" -> "u1" [] c = "c2" -> "u2"
                                     [] OTHER -> "u3"]
    /\ users = [u \in Users |-> GoodPassword]
    /\ pc = [c \in Conns |-> "recv"]
    /\ loc = [c \in Conns |-> Idle]
    /\ sent = <<>>
    /\ last = [conn |-> NoConn, msg |-> NoMessage]
    /\ ended = [r \in RoomNames |-> {}]
    /\ placer = [r \in RoomNames |-> NoConn]
    /\ todo = scripts

\* Concurrent CREATEs at the cap: each connection sends one CREATE, and the
\* handlers' steps interleave.
CapScript(c) ==
    CASE c = "c1" -> <<Create("r1")>>
      [] c = "c2" -> <<Create("r2")>>
      [] c = "c3" -> <<Create("r1")>>

NextCap ==
    \E c \in Conns :
        \/ RecvNext(c)
        \/ Step(c)

SpecCap ==
    InitNearCap([c \in Conns |-> CapScript(c)]) /\ [][NextCap]_vars

\* C12: the registry never holds more than 256 rooms, whatever the order of
\* the steps of the handlers that serve CREATEs.
RoomCountCap == Len(rooms) <= RoomCap

\* CREATEs served one at a time at the cap: every connection sends CREATE
\* with a new, a used, an illegal or no name, and may close.
CreateMessages ==
    {Create("r1"), Create("r2"), Create(FillerName(1)), Create(IllegalName),
     Create(LongName), Create(""), <<"CREATE">>, <<"CREATE", "r1", "r2">>}

NextCreate ==
    \E c \in Conns :
        \/ \E m \in CreateMessages : Serve(c, m)
        \/ Close(c)

SpecCreate ==
    InitNearCap([c \in Conns |-> <<>>]) /\ [][NextCreate]_vars

\* the step serves a CREATE of the logged-in connection c
Creates(c) ==
    /\ last'.conn = c
    /\ pc[c] = "recv"
    /\ last'.msg[1] = "CREATE"
    /\ check_authorizations(c, authenticated_clients)

\* 1 to 20 characters of [A-Za-z0-9 _-]
WellFormedName(name) == Len(name) \in 1..20 /\ name \notin {"bad!name"}

\* the status of a CREATE with the arguments args, before the step
CreateStatus(args) ==
    IF Len(args) # 1 THEN "4"
    ELSE IF ~WellFormedName(args[1]) THEN "1"
    ELSE IF DictHas(rooms, args[1]) THEN "2"
    ELSE IF Len(rooms) = 256 THEN "3"
    ELSE "0"

\* C14: a CREATE is answered CREATE:ACKSTATUS:4 for an argument count other
\* than 1, else 1 for a name that is not 1-20 characters of [A-Za-z0-9 _-],
\* else 2 for the name of a room that exists, else 3 when 256 rooms exist,
\* else 0; on 0 one room is added under the name, with the sender as its only
\* player and current mover, an empty board, not begun and not ended, and the
\* other rooms stay; on any other status the rooms, the memberships and the
\* logins stay as they were.
CreateReply ==
    [][\A c \in Conns :
          Creates(c) =>
              LET args == Tail(last'.msg)
                  code == CreateStatus(args)
              IN  /\ sent' = Sendall(c, <<"CREATE", "ACKSTATUS", code>>)
                  /\ pc'[c] = "recv"
                  /\ code # "0" =>
                        UNCHANGED <<rooms, clients, authenticated_clients>>
                  /\ code = "0" =>
                        /\ Len(rooms') = Len(rooms) + 1
                        /\ SubSeq(rooms', 1, Len(rooms)) = rooms
                        /\ rooms'[Len(rooms')][1] = args[1]
                        /\ LET room == rooms'[Len(rooms')][2]
                           IN  /\ room.players = <<c>>
                               /\ room.viewers = <<>>
                               /\ get_current_player(room) = c
                               /\ \A i \in 1..3 : \A j \in 1..3 :
                                      room.matrix[i][j] = 0
                               /\ ~room.has_began
                               /\ ~room.has_end
      ]_vars

\* a CREATE of a legal, unused name has just been refused with 256 rooms
CapacityRefused ==
    /\ last.conn \in Conns
    /\ last.msg = Create("r2")
    /\ sent = Sendall(last.conn, <<"CREATE", "ACKSTATUS", "3">>)
    /\ Len(rooms) = 256
    /\ ~DictHas(rooms, "r2")
    /\ DictHas(rooms, "r1")

----------------------------------------------------------------------------
(* Memberships, the start of a match, forfeits and pending commands, in    *)
(* the sequential runs of Spec.                                            *)

\* c is a player or a viewer of the room
Member(room, c) ==
    \/ in_room_as_a_player(room, c)
    \/ \E i \in 1..Len(room.viewers) : is_same_socket(room.viewers[i], c)

RoomsOf(c) == {i \in 1..Len(rooms) : Member(rooms[i][2], c)}

\* C13: every connection is a player or a viewer of at most one room.
OneRoomPerConnection == \A c \in Conns : Cardinality(RoomsOf(c)) <= 1

\* the step serves a JOIN as PLAYER of the logged-in connection c to a room
\* that has one player
SecondPlayerJoins(c) ==
    /\ last'.conn = c
    /\ pc[c] = "recv"
    /\ Len(last'.msg) = 3
    /\ last'.msg[1] = "JOIN"
    /\ last'.msg[3] = "PLAYER"
    /\ check_authorizations(c, authenticated_clients)
    /\ DictHas(rooms, last'.msg[2])
    /\ Len(DictGet(rooms, last'.msg[2]).players) = 1

\* the BEGIN messages among the sends out that went to the connection to
BeginsTo(out, to) ==
    {i \in 1..Len(out) : out[i].to = to /\ out[i].msg[1] = "BEGIN"}

\* C15: when a second player joins a room, the creator and the joiner each
\* get exactly one BEGIN, which is BEGIN:<creator's username>:<joiner's
\* username>, the joiner after its JOIN:ACKSTATUS:0; and no step sends a
\* BEGIN but the join of a second player.
BeginMessages ==
    [][/\ \A c \in Conns :
             SecondPlayerJoins(c) =>
                 LET creator == DictGet(rooms, last'.msg[2]).players[1]
                 IN  /\ HasUser(authenticated_clients, creator)
                     /\ \A p \in {creator, c} :
                            /\ Cardinality(BeginsTo(sent', p)) = 1
                            /\ \A i \in BeginsTo(sent', p) :
                                   sent'[i].msg =
                                       <<"BEGIN",
                                         UserOf(authenticated_clients, creator),
                                         UserOf(authenticated_clients, c)>>
                     /\ \E i \in 1..Len(sent') :
                            /\ sent'[i] = [to |-> c, msg |-> <<"JOIN", "ACKSTATUS", "0">>]
                            /\ \A j \in BeginsTo(sent', c) : i < j
       /\ (\E i \in 1..Len(sent') : sent'[i].msg[1] = "BEGIN")
             => \E c \in Conns : SecondPlayerJoins(c)
      ]_vars

\* the step runs forfeit for c: c is logged in, is the current mover of its
\* room, which has begun, and its FORFEIT is served to the end
MoverForfeits(c) ==
    /\ last'.conn = c
    /\ last'.msg = Forfeit
    /\ pc[c] \in {"recv", "spin1"}
    /\ pc'[c] # "spin1"
    /\ check_authorizations(c, authenticated_clients)
    /\ PlayerRooms(rooms, c) # {}
    /\ RoomOf(c).has_began
    /\ Len(RoomOf(c).players) = 2
    /\ is_same_socket(get_current_player(RoomOf(c)), c)

\* the step serves a FORFEIT of c, a player of a room with one player
LonePlayerForfeits(c) ==
    /\ last'.conn = c
    /\ last'.msg = Forfeit
    /\ pc[c] \in {"recv", "spin1"}
    /\ check_authorizations(c, authenticated_clients)
    /\ PlayerRooms(rooms, c) # {}
    /\ Len(RoomOf(c).players) < 2

\* C18: a FORFEIT of a player of a begun 2-player room sends
\* GAMEEND:<board>:2:<the other player's username>, with the board as it was,
\* to both players and to every viewer, and no other BOARDSTATUS or GAMEEND;
\* a FORFEIT in a room with fewer than 2 players sends no GAMEEND and changes
\* no room.
ForfeitEnds ==
    [][\A c \in Conns :
          /\ MoverForfeits(c) =>
                LET room == RoomOf(c)
                    other == get_another_player(room, c)
                    audience == {room.players[k] : k \in 1..Len(room.players)}
                                \cup {room.viewers[k] : k \in 1..Len(room.viewers)}
                IN  /\ HasUser(authenticated_clients, other)
                    /\ \A v \in audience : BoardMessagesTo(sent', v) # {}
                    /\ \A k \in 1..Len(sent') :
                           BoardMessage(sent'[k].msg) =>
                               sent'[k].msg =
                                   <<"GAMEEND", get_matrix_in_string(room), "2",
                                     UserOf(authenticated_clients, other)>>
                    /\ \A r \in RoomNames :
                           (DictHas(rooms, r) /\ DictHas(rooms', r)) =>
                               DictGet(rooms', r).matrix = DictGet(rooms, r).matrix
          /\ LonePlayerForfeits(c) =>
                (NoBoardMessage(sent') /\ rooms' = rooms)
      ]_vars

\* the step resumes the handler of c, which waits for its turn with a PLACE
\* or a FORFEIT, after its room has been removed
PendingRoomGone(c) ==
    /\ last'.conn = c
    /\ pc[c] = "spin1"
    /\ loc[c].msg[1] \in {"PLACE", "FORFEIT"}
    /\ ~DictHas(rooms, loc[c].roomname)

\* C19: a PLACE or FORFEIT that waits for its turn when its room ends is
\* dropped: it changes no room and sends no BOARDSTATUS or GAMEEND, and its
\* connection stays open, logged in, with its handler back at recv.
PendingCancelled ==
    [][\A c \in Conns :
          PendingRoomGone(c) =>
              /\ rooms' = rooms
              /\ NoBoardMessage(sent')
              /\ pc'[c] = "recv"
              /\ authenticated_clients' = authenticated_clients
      ]_vars

----------------------------------------------------------------------------
(* Whole matches, one message served at a time: c1 creates r1, c2 joins it *)
(* as a player and c3 as a viewer, and the player whose turn it is places  *)
(* on any empty cell, until a line is completed or the board is full.      *)

Cells == {Place(column, row) : column \in 0..2, row \in 0..2}

PlayScript(c) ==
    CASE c = "c1" -> {Create("r1")} \cup Cells
      [] c = "c2" -> {Join("r1", "PLAYER")} \cup Cells
      [] c = "c3" -> {Join("r1", "VIEWER")}

\* what the clients of these matches keep to: a PLACE is sent by the current
\* mover of a begun room for an empty cell, a JOIN as VIEWER once
Polite(c, m) ==
    /\ m[1] = "PLACE" =>
          /\ PlayerRooms(rooms, c) # {}
          /\ RoomOf(c).has_began
          /\ Len(RoomOf(c).players) = 2
          /\ is_same_socket(get_current_player(RoomOf(c)), c)
          /\ Target(c, m) = 0
    /\ (m[1] = "JOIN" /\ m[3] = "VIEWER") => RoomsOf(c) = {}

Play(c, m) ==
    /\ pc[c] = "recv"
    /\ Polite(c, m)
    /\ Becomes(c, RunToWait(received(State, c, m), c))
    /\ last' = [conn |-> c, msg |-> m]
    /\ UNCHANGED todo

NextPlay == \E c \in Conns : \E m \in PlayScript(c) : Play(c, m)

SpecPlay == InitLoggedIn([c \in Conns |-> <<>>]) /\ [][NextPlay]_vars

\* the 9 cells of a matrix, row after row, and the matrix of 9 cells
Flat(m) == [k \in 1..9 |-> m[((k - 1) \div 3) + 1][((k - 1) % 3) + 1]]
Unflat(cells) == [r \in 1..3 |-> [c \in 1..3 |-> cells[3 * (r - 1) + c]]]

Char(n) == IF n = 0 THEN "0" ELSE IF n = 1 THEN "1" ELSE "2"

\* the 9-character board string of 9 cells
Encode(cells) ==
    Char(cells[1]) \o Char(cells[2]) \o Char(cells[3]) \o Char(cells[4])
    \o Char(cells[5]) \o Char(cells[6]) \o Char(cells[7]) \o Char(cells[8])
    \o Char(cells[9])

\* the step serves a PLACE of the current mover c, in range, on an empty cell
Accepted(c) ==
    MoverPlaces(c) /\ InRange(last'.msg) /\ Target(c, last'.msg) = 0

\* the cells of the board of room once the mark of its player c is at index
\* 3*row+col
Marked(room, c, column, row) ==
    [Flat(room.matrix) EXCEPT
        ![3 * row + column + 1] = IF is_same_socket(room.players[1], c) THEN 1 ELSE 2]

\* the players and the viewers of the room
Audience(room) ==
    {room.players[k] : k \in 1..Len(room.players)}
    \cup {room.viewers[k] : k \in 1..Len(room.viewers)}

\* every connection of the audience is among the receivers of the message in
\* the sends out, which hold no other BOARDSTATUS or GAMEEND
Announced(out, audience, message) ==
    /\ audience \subseteq {out[i].to : i \in {j \in 1..Len(out) : out[j].msg = message}}
    /\ \A i \in 1..Len(out) : BoardMessage(out[i].msg) => out[i].msg = message

\* C16: an accepted PLACE:<col>:<row> of the slot-0 (slot-1) player sets the
\* character at index 3*row+col of the row-major board string to '1' ('2')
\* and changes no other; if no line is completed and an empty cell is left,
\* BOARDSTATUS:<that string> goes to both players and all viewers, the room
\* holds that board, and the turn is the other player's.
PlacementEncoding ==
    [][\A c \in Conns :
          Accepted(c) =>
              \A name \in {LastPlayerRoom(rooms, c)} :
              \A room \in {DictGet(rooms, name)} :
              \A after \in {Marked(room, c, last'.msg[2], last'.msg[3])} :
              \A text \in {Encode(after)} :
                  /\ \E i \in 1..Len(sent') : BoardMessage(sent'[i].msg)
                  /\ \A i \in 1..Len(sent') :
                         BoardMessage(sent'[i].msg) => sent'[i].msg[2] = text
                  /\ DictHas(rooms', name) =>
                         Flat(DictGet(rooms', name).matrix) = after
                  /\ (UniformLines(Unflat(after)) = {} /\ ~NoEmptyCell(Unflat(after)))
                        => /\ Announced(sent', Audience(room), <<"BOARDSTATUS", text>>)
                           /\ DictHas(rooms', name)
                           /\ is_same_socket(
                                  get_current_player(DictGet(rooms', name)),
                                  get_another_player(room, c))
      ]_vars

\* the first move PLACE:0:0 of c1 has just been broadcast as
\* BOARDSTATUS:100000000 to c1, c2 and the viewer c3, and the turn is c2's
FirstMoveBroadcast ==
    /\ last = [conn |-> "c1", msg |-> Place(0, 0)]
    /\ sent = <<[to |-> "c1", msg |-> <<"BOARDSTATUS", "100000000">>],
                [to |-> "c2", msg |-> <<"BOARDSTATUS", "100000000">>],
                [to |-> "c3", msg |-> <<"BOARDSTATUS", "100000000">>]>>
    /\ DictHas(rooms, "r1")
    /\ get_current_player(DictGet(rooms, "r1")) = "c2"

\* C17: an accepted placement that completes a line sends
\* GAMEEND:<board>:0:<the placing player's username>, one that fills the board
\* with no line sends GAMEEND:<board>:1 with no fourth field, in both cases
\* with the final mark in the board and to both players and all viewers.
TerminalPlacement ==
    [][\A c \in Conns :
          Accepted(c) =>
              \A room \in {RoomOf(c)} :
              \A after \in {Marked(room, c, last'.msg[2], last'.msg[3])} :
              \A lines \in {UniformLines(Unflat(after))} :
                  /\ lines # {} =>
                         Announced(sent', Audience(room),
                                   <<"GAMEEND", Encode(after), "0",
                                     UserOf(authenticated_clients, c)>>)
                  /\ (lines = {} /\ NoEmptyCell(Unflat(after)))
                        => Announced(sent', Audience(room),
                                     <<"GAMEEND", Encode(after), "1">>)
      ]_vars

\* c2, in slot 1, has just completed a line and been named the winner
SecondPlayerWins ==
    /\ last.conn = "c2"
    /\ last.msg[1] = "PLACE"
    /\ \E i \in 1..Len(sent) :
           /\ sent[i].to = "c1"
           /\ Len(sent[i].msg) = 4
           /\ sent[i].msg[1] = "GAMEEND"
           /\ sent[i].msg[3] = "0"
           /\ sent[i].msg[4] = "u2"
    /\ ~DictHas(rooms, "r1")

----------------------------------------------------------------------------
(* Commands of connections that play in no room, and room lists, one       *)
(* message served at a time: c1 creates r1 and r2, c2 joins r1 as a        *)
(* player, c3 watches r1; every connection sends PLACE, FORFEIT, an        *)
(* unknown command and ROOMLIST with good and bad arguments.               *)

Hello == <<"HELLO">>

ListMessages ==
    {RoomList("PLAYER"), RoomList("VIEWER"), RoomList("ALL"), <<"ROOMLIST">>,
     <<"ROOMLIST", "PLAYER", "VIEWER">>}

ViewScript(c) ==
    CASE c = "c1" -> {Create("r1"), Create("r2"), Place(0, 0), Hello}
      [] c = "c2" -> {Join("r1", "PLAYER"), Place(1, 1), Forfeit, Hello}
                        \cup ListMessages
      [] c = "c3" -> {Join("r1", "VIEWER"), Place(2, 2), Forfeit, Hello}
                        \cup ListMessages

NextView ==
    \E c \in Conns :
        \/ \E m \in ViewScript(c) : Serve(c, m)
        \/ Resume(c)

SpecView == InitLoggedIn([c \in Conns |-> <<>>]) /\ [][NextView]_vars

\* the step serves a command that is none of LOGIN, REGISTER, ROOMLIST,
\* CREATE and JOIN, of the logged-in connection c, a player of no room
Outsider(c) ==
    /\ last'.conn = c
    /\ pc[c] = "recv"
    /\ last'.msg[1] \in {"PLACE", "FORFEIT", "HELLO"}
    /\ check_authorizations(c, authenticated_clients)
    /\ \A i \in 1..Len(rooms) : ~in_room_as_a_player(rooms[i][2], c)

\* C21: a PLACE, a FORFEIT or an unknown command of a logged-in connection
\* that is a player of no room, a viewer included, changes no room and no
\* membership entry; the connection that is in no room at all gets NOROOM
\* and nothing else is sent.
ViewersReadOnly ==
    [][\A c \in Conns :
          Outsider(c) =>
              /\ rooms' = rooms
              /\ clients' = clients
              /\ authenticated_clients' = authenticated_clients
              /\ RoomsOf(c) = {} => sent' = Sendall(c, <<"NOROOM">>)
      ]_vars

\* the viewer c3 of the begun room r1 has sent PLACE:2:2 and got NOROOM
ViewerRefused ==
    /\ last = [conn |-> "c3", msg |-> Place(2, 2)]
    /\ sent = Sendall("c3", <<"NOROOM">>)
    /\ DictHas(rooms, "r1")
    /\ DictGet(rooms, "r1").has_began
    /\ DictGet(rooms, "r1").viewers = <<"c3">>
    /\ DictGet(rooms, "r1").matrix = EmptyMatrix

----------------------------------------------------------------------------
(* The end of a connection.                                                *)

\* the step is one of the finally block of the handler of x
TearsDown(x) == last'.conn = x /\ pc[x] \in FinPcs

\* the entry of the key k is the same in the dictionaries f and g
SameEntry(f, g, k) ==
    /\ k \in DOMAIN f <=> k \in DOMAIN g
    /\ k \in DOMAIN f => f[k] = g[k]

\* C22: a step of the teardown of the connection x leaves to every other
\* connection its login binding and its membership entry, and leaves every
\* room that does not have x among its players as it is, whatever the other
\* handlers are doing.
TeardownIsolation ==
    [][\A x \in Conns :
          TearsDown(x) =>
              /\ \A d \in Conns \ {x} :
                     /\ SameEntry(authenticated_clients, authenticated_clients', d)
                     /\ SameEntry(clients, clients', d)
              /\ \A i \in 1..Len(rooms) :
                     ~in_room_as_a_player(rooms[i][2], x) =>
                         /\ DictHas(rooms', rooms[i][1])
                         /\ DictGet(rooms', rooms[i][1]) = rooms[i][2]
      ]_vars

\* C23: a connection whose handler has finished its teardown has no login
\* binding and no membership entry, and is neither a player nor a viewer of
\* a room of the registry.
TeardownComplete ==
    \A c \in Conns :
        pc[c] = "dead" =>
            /\ ~HasUser(authenticated_clients, c)
            /\ c \notin DOMAIN clients
            /\ RoomsOf(c) = {}

\* the step serves the end of the connection c
Disconnects(c) == last'.conn = c /\ last'.msg = <<"close">> /\ pc[c] = "recv"

\* the owner-left notices among the sends out that went to the connection to
NoticesTo(out, to) ==
    {i \in 1..Len(out) : out[i] = [to |-> to, msg |-> <<"Room owner has quited.">>]}

\* C24: when the only player of a room with fewer than 2 players
\* disconnects, the room leaves the registry, each of its viewers gets the
\* owner-left notice exactly once, and no GAMEEND is sent.
WaitingRoomDissolved ==
    [][\A c \in Conns :
          Disconnects(c) =>
              \A i \in 1..Len(rooms) :
                  (/\ in_room_as_a_player(rooms[i][2], c)
                   /\ Len(rooms[i][2].players) < max_players)
                      => /\ ~DictHas(rooms', rooms[i][1])
                         /\ \A k \in 1..Len(rooms[i][2].viewers) :
                                Cardinality(NoticesTo(sent', rooms[i][2].viewers[k])) = 1
                         /\ NoBoardMessage(sent')
      ]_vars

----------------------------------------------------------------------------
(* Two players come for one place: c1 creates r1 and places, c2 and c3     *)
(* both join r1 as players, the handlers stepping in any order.            *)

RivalScript(c) ==
    CASE c = "c1" -> <<Create("r1"), Place(0, 0)>>
      [] c = "c2" -> <<Join("r1", "PLAYER")>>
      [] c = "c3" -> <<Join("r1", "PLAYER")>>

NextRivals ==
    \E c \in Conns :
        \/ RecvNext(c)
        \/ Step(c)

SpecRivals ==
    InitLoggedIn([c \in Conns |-> RivalScript(c)]) /\ [][NextRivals]_vars

\* a non-zero ACKSTATUS, BADAUTH or NOROOM
FailureReply(message) ==
    \/ message = <<"BADAUTH">>
    \/ message = <<"NOROOM">>
    \/ Len(message) = 3 /\ message[2] = "ACKSTATUS" /\ message[3] # "0"

\* C25: the step of a handler that answers a command with a failure reply
\* writes to none of rooms, clients and authenticated_clients; a JOIN that
\* is answered JOIN:ACKSTATUS:2 writes no room back.
CommitOrNoOp ==
    [][(\E i \in 1..Len(sent') : FailureReply(sent'[i].msg)) =>
          /\ rooms' = rooms
          /\ clients' = clients
          /\ authenticated_clients' = authenticated_clients
      ]_vars

----------------------------------------------------------------------------
(* Viewers that join, and room lists.                                      *)

\* the step serves a JOIN of the logged-in connection c
Joins(c) ==
    /\ last'.conn = c
    /\ pc[c] = "recv"
    /\ Len(last'.msg) = 3
    /\ last'.msg[1] = "JOIN"
    /\ last'.msg[3] \in {"PLAYER", "VIEWER"}
    /\ check_authorizations(c, authenticated_clients)

\* the INPROGRESS messages among the sends out that went to the connection to
InProgressTo(out, to) ==
    {i \in 1..Len(out) : out[i].to = to /\ out[i].msg[1] = "INPROGRESS"}

\* C26: a JOIN as VIEWER to a room of the registry is answered
\* JOIN:ACKSTATUS:0 and the sender is among the room's viewers afterwards; if
\* the room has 2 players the sender gets exactly one INPROGRESS, after the
\* JOIN:ACKSTATUS:0; a JOIN to a room that is not in the registry is answered
\* JOIN:ACKSTATUS:1.
ViewerJoin ==
    [][\A c \in Conns :
          Joins(c) =>
              \A name \in {last'.msg[2]} :
                  /\ ~DictHas(rooms, name) => sent' = Sendall(c, Ack("JOIN", "1"))
                  /\ (DictHas(rooms, name) /\ last'.msg[3] = "VIEWER") =>
                        /\ sent' # <<>>
                        /\ sent'[1] = [to |-> c, msg |-> Ack("JOIN", "0")]
                        /\ DictHas(rooms', name)
                        /\ \E k \in 1..Len(DictGet(rooms', name).viewers) :
                               DictGet(rooms', name).viewers[k] = c
                        /\ Len(DictGet(rooms, name).players) = max_players =>
                               /\ Cardinality(InProgressTo(sent', c)) = 1
                               /\ \A i \in InProgressTo(sent', c) : i > 1
      ]_vars

\* C27: the INPROGRESS sent to a viewer that joins a room with 2 players
\* names the player of slot 0, then the player of slot 1, whoever's turn it
\* is.
InProgressOrder ==
    [][\A c \in Conns :
          (/\ Joins(c)
           /\ last'.msg[3] = "VIEWER"
           /\ DictHas(rooms, last'.msg[2])
           /\ Len(DictGet(rooms, last'.msg[2]).players) = max_players) =>
              \A room \in {DictGet(rooms, last'.msg[2])} :
              \A i \in InProgressTo(sent', c) :
                  /\ HasUser(authenticated_clients, room.players[1])
                  /\ HasUser(authenticated_clients, room.players[2])
                  /\ sent'[i].msg =
                         <<"INPROGRESS",
                           UserOf(authenticated_clients, room.players[1]),
                           UserOf(authenticated_clients, room.players[2])>>
      ]_vars

\* C27 as the code has it: the INPROGRESS sent to a viewer that joins a room
\* with 2 players is one message, INPROGRESS:<the username of the player
\* whose turn it is>:<the username of the other player>; in a match played
\* in turns that is slot 0 first when the board holds an even number of
\* marks, slot 1 first when it holds an odd number.
InProgressMoverFirst ==
    [][\A c \in Conns :
          (/\ Joins(c)
           /\ last'.msg[3] = "VIEWER"
           /\ DictHas(rooms, last'.msg[2])
           /\ Len(DictGet(rooms, last'.msg[2]).players) = max_players) =>
              \A room \in {DictGet(rooms, last'.msg[2])} :
              \A mover \in {IF Marks(room.matrix) % 2 = 0 THEN 1 ELSE 2} :
                  /\ Cardinality(InProgressTo(sent', c)) = 1
                  /\ \A i \in InProgressTo(sent', c) :
                         sent'[i].msg =
                             <<"INPROGRESS",
                               UserOf(authenticated_clients, room.players[mover]),
                               UserOf(authenticated_clients, room.players[3 - mover])>>
      ]_vars

\* c3 has come to watch r1 after the first mark and been told that it is
\* u2's turn
LateViewerSeesMover ==
    /\ last = [conn |-> "c3", msg |-> Join("r1", "VIEWER")]
    /\ sent = <<[to |-> "c3", msg |-> Ack("JOIN", "0")],
                [to |-> "c3", msg |-> <<"INPROGRESS", "u2", "u1">>]>>
    /\ DictHas(rooms, "r1")
    /\ Marks(DictGet(rooms, "r1").matrix) = 1

\* the step serves a ROOMLIST of the logged-in connection c
Lists(c) ==
    /\ last'.conn = c
    /\ pc[c] = "recv"
    /\ last'.msg[1] = "ROOMLIST"
    /\ check_authorizations(c, authenticated_clients)

\* the names of the rooms of the registry, and of those with fewer than 2
\* players
AllNames == {rooms[i][1] : i \in 1..Len(rooms)}
OpenNames == {rooms[i][1] : i \in {j \in 1..Len(rooms) : Len(rooms[j][2].players) < 2}}

\* the texts that name every room of S once, the names separated by commas
Listings(S) ==
    {IF Len(ns) = 0 THEN ""
     ELSE IF Len(ns) = 1 THEN ns[1]
     ELSE ns[1] \o "," \o ns[2] :
        ns \in {f \in [1..Cardinality(S) -> S] :
                   \A i \in DOMAIN f : \A j \in DOMAIN f : f[i] = f[j] => i = j}}

\* C28: ROOMLIST:PLAYER is answered ROOMLIST:ACKSTATUS:0: and the names of
\* exactly the rooms with fewer than 2 players, ROOMLIST:VIEWER the names of
\* exactly the rooms of the registry, any other argument or number of
\* arguments ROOMLIST:ACKSTATUS:1; and ROOMLIST changes none of rooms,
\* clients, authenticated_clients and users.
RoomListReply ==
    [][\A c \in Conns :
          Lists(c) =>
              /\ rooms' = rooms
              /\ clients' = clients
              /\ authenticated_clients' = authenticated_clients
              /\ users' = users
              /\ Len(sent') = 1
              /\ sent'[1].to = c
              /\ last'.msg = RoomList("PLAYER") =>
                     \E text \in Listings(OpenNames) :
                         sent'[1].msg = <<"ROOMLIST", "ACKSTATUS", "0", text>>
              /\ last'.msg = RoomList("VIEWER") =>
                     \E text \in Listings(AllNames) :
                         sent'[1].msg = <<"ROOMLIST", "ACKSTATUS", "0", text>>
              /\ last'.msg \notin {RoomList("PLAYER"), RoomList("VIEWER")} =>
                     sent'[1].msg = Ack("ROOMLIST", "1")
      ]_vars

\* with r1 full and r2 open, c3 has asked for the rooms to play in and got r2
OpenRoomsListed ==
    /\ last = [conn |-> "c3", msg |-> RoomList("PLAYER")]
    /\ sent = Sendall("c3", <<"ROOMLIST", "ACKSTATUS", "0", "r2">>)
    /\ DictHas(rooms, "r1")
    /\ Len(DictGet(rooms, "r1").players) = 2
    /\ DictHas(rooms, "r2")

----------------------------------------------------------------------------
(* Joins and placements that are served at the same time.                  *)

\* the handler of c has answered JOIN:ACKSTATUS:0 to a JOIN as PLAYER and is
\* about to start the match
AnsweredPlayer(c) ==
    /\ pc[c] \in {"join5", "join6", "join7"}
    /\ loc[c].msg[3] = "PLAYER"
    /\ loc[c].text = Ack("JOIN", "0")

\* C29: of the connections that send JOIN:<r>:PLAYER at the same time for a
\* room with one player, one only is answered JOIN:ACKSTATUS:0, and a
\* connection that was answered JOIN:ACKSTATUS:0 as PLAYER is in the room's
\* player list.
OneSecondPlayer ==
    /\ \A c \in Conns :
           AnsweredPlayer(c) =>
               /\ DictHas(rooms, loc[c].msg[2])
               /\ in_room_as_a_player(DictGet(rooms, loc[c].msg[2]), c)
    /\ \A c \in Conns : \A d \in Conns :
           (AnsweredPlayer(c) /\ AnsweredPlayer(d) /\ loc[c].msg[2] = loc[d].msg[2])
               => c = d

\* the step of the handler of c stores its copy of a room of the registry:
\* the copy of a JOIN as VIEWER, or the copy of a PLACE
StoresViewer(c) ==
    /\ last'.conn = c
    /\ pc[c] = "join4"
    /\ loc[c].msg[3] = "VIEWER"
    /\ DictHas(rooms, loc[c].msg[2])

StoresMark(c) ==
    /\ last'.conn = c
    /\ pc[c] = "place2"
    /\ DictHas(rooms, loc[c].roomname)

\* C30: when a JOIN as VIEWER and a PLACE on one room are served at the same
\* time, the store of the viewer's join leaves the board and the turn of the
\* room as they are, and the store of the placement leaves the viewers as
\* they are.
NoLostUpdate ==
    [][\A c \in Conns :
          /\ StoresViewer(c) =>
                \A before \in {DictGet(rooms, loc[c].msg[2])} :
                \A after \in {DictGet(rooms', loc[c].msg[2])} :
                    /\ after.matrix = before.matrix
                    /\ after.current_player = before.current_player
          /\ StoresMark(c) =>
                \A before \in {DictGet(rooms, loc[c].roomname)} :
                \A after \in {DictGet(rooms', loc[c].roomname)} :
                    after.viewers = before.viewers
      ]_vars

----------------------------------------------------------------------------
(* Two rooms: c1 creates r1, c2 joins it as a player and c1 forfeits,      *)
(* while c3 creates r2; the handlers step in any order.                    *)

TwoRoomsScript(c) ==
    CASE c = "c1" -> <<Create("r1"), Forfeit>>
      [] c = "c2" -> <<Join("r1", "PLAYER")>>
      [] c = "c3" -> <<Create("r2")>>

NextTwoRooms ==
    \E c \in Conns :
        \/ RecvNext(c)
        \/ Step(c)

SpecTwoRooms ==
    InitLoggedIn([c \in Conns |-> TwoRoomsScript(c)]) /\ [][NextTwoRooms]_vars

\* the step is one of place, forfeit, the end of a match or the finally
\* block, run by the handler of c for the room it has found
WorksOnRoom(c) ==
    /\ last'.conn = c
    /\ pc[c] \in PlacePcs \cup ForfeitPcs \cup EndPcs \cup FinPcs
    /\ loc[c].roomname # None

\* C31: a step of a placement, a forfeit, a match end or a disconnect that
\* concerns the room R leaves every other room of the registry in it, with
\* the same contents, and leaves the membership entries of that room's
\* players and viewers as they are.
RoomIndependence ==
    [][\A c \in Conns :
          WorksOnRoom(c) =>
              \A i \in 1..Len(rooms) :
                  rooms[i][1] # loc[c].roomname =>
                      /\ DictHas(rooms', rooms[i][1])
                      /\ DictGet(rooms', rooms[i][1]) = rooms[i][2]
                      /\ \A d \in Conns :
                             Member(rooms[i][2], d) => SameEntry(clients, clients', d)
      ]_vars

----------------------------------------------------------------------------
(* Rooms that are created at the same time, commands that wait for their   *)
(* turn, and the registry after a match.                                   *)

\* the handler of c has answered CREATE:ACKSTATUS:0 and not yet returned
AnsweredCreate(c) == pc[c] \in {"create3", "create4", "create5", "create6"}

\* C32: of the connections that send CREATE with one name at the same time,
\* at most one is answered CREATE:ACKSTATUS:0, and once its room is stored
\* the room of that name has it in slot 0.
UniqueRoomName ==
    /\ \A c \in Conns : \A d \in Conns :
           (AnsweredCreate(c) /\ AnsweredCreate(d) /\ loc[c].msg[2] = loc[d].msg[2])
               => c = d
    /\ \A c \in Conns :
           (AnsweredCreate(c) /\ pc[c] # "create3") =>
               /\ DictHas(rooms, loc[c].msg[2])
               /\ DictGet(rooms, loc[c].msg[2]).players[1] = c

\* A command that waits: c1 creates r1 and then r2, and places in r1 or
\* closes its connection; c2 joins r1 as a player and sends PLACE.
WaitScript(c) ==
    CASE c = "c1" -> <<Create("r1"), Create("r2"), Place(0, 0)>>
      [] c = "c2" -> <<Join("r1", "PLAYER"), Place(1, 1)>>
      [] c = "c3" -> <<>>

NextWait ==
    \/ \E c \in Conns :
           \/ RecvNext(c)
           \/ Step(c)
    \/ Hangup("c1")

\* every handler process is scheduled again and again, and a message that
\* was sent is received
FairWait ==
    \A c \in Conns : WF_vars(Step(c)) /\ WF_vars(RecvNext(c))

SpecWait ==
    InitLoggedIn([c \in Conns |-> WaitScript(c)]) /\ [][NextWait]_vars /\ FairWait

\* the handler of c is in the loop that waits for its turn, with a PLACE
Pending(c) == pc[c] \in {"spin1", "spin2"} /\ loc[c].msg[1] = "PLACE"

\* the room c waits in has begun and a player of it other than c has
\* disconnected: no turn of that player will end
OpponentGone(c) ==
    /\ DictHas(rooms, loc[c].roomname)
    /\ DictGet(rooms, loc[c].roomname).has_began
    /\ \E d \in Conns \ {c} :
           /\ in_room_as_a_player(DictGet(rooms, loc[c].roomname), d)
           /\ pc[d] = "dead"

\* C33: a PLACE that waits for its sender's turn does not wait forever: when
\* the turn does not come because the other player has disconnected, the
\* wait ends all the same.
BlockedCommandProceeds ==
    \A c \in Conns : (Pending(c) /\ OpponentGone(c)) ~> ~Pending(c)

\* C34: the board of a room of the registry that has fewer than 2 players,
\* or has not begun, is all zeros; and the handler of a PLACE gets past the
\* wait for has_began only when the room has 2 players and has begun: a
\* PLACE of the creator is held until the second player has joined.
NoPlacementWhileWaiting ==
    [][/\ \A i \in 1..Len(rooms') :
              (Len(rooms'[i][2].players) < max_players \/ ~rooms'[i][2].has_began)
                  => rooms'[i][2].matrix = EmptyMatrix
       /\ \A c \in Conns :
              (last'.conn = c /\ pc[c] = "spin1" /\ pc'[c] \in {"spin2"} \cup PlacePcs) =>
                  /\ DictHas(rooms, loc[c].roomname)
                  /\ Len(DictGet(rooms, loc[c].roomname).players) = max_players
                  /\ DictGet(rooms, loc[c].roomname).has_began
      ]_vars

\* the PLACE:0:0 of the creator c1 waits while r1 has one player
CreatorHeld ==
    /\ pc["c1"] = "spin1"
    /\ loc["c1"].msg = Place(0, 0)
    /\ DictHas(rooms, "r1")
    /\ DictGet(rooms, "r1").players = <<"c1">>
    /\ DictGet(rooms, "r1").matrix = EmptyMatrix
    /\ pc["c2"] \in JoinPcs

\* The creator joins its own room: c1 creates r1 and sends JOIN:r1:PLAYER,
\* c2 joins r1 as a player and c3 as a viewer, one message served at a time.
SelfJoinScript(c) ==
    CASE c = "c1" -> {Create("r1"), Join("r1", "PLAYER"), Place(0, 0)}
      [] c = "c2" -> {Join("r1", "PLAYER"), Place(1, 1)}
      [] c = "c3" -> {Join("r1", "VIEWER")}

NextSelfJoin ==
    \E c \in Conns :
        \/ \E m \in SelfJoinScript(c) : Serve(c, m)
        \/ Resume(c)
        \/ Close(c)

SpecSelfJoin == InitLoggedIn([c \in Conns |-> <<>>]) /\ [][NextSelfJoin]_vars

\* C35: the two player slots of a room hold different connections.
DistinctSlots ==
    \A i \in 1..Len(rooms) :
        Len(rooms[i][2].players) = max_players
            => ~is_same_socket(rooms[i][2].players[1], rooms[i][2].players[2])

\* the step serves a PLACE or a FORFEIT of the player c to its end without an
\* exception, and a GAMEEND is among its sends
EndsMatch(c) ==
    /\ last'.conn = c
    /\ last'.msg[1] \in {"PLACE", "FORFEIT"}
    /\ pc[c] \in {"recv", "spin1"}
    /\ pc'[c] = "recv"
    /\ PlayerRooms(rooms, c) # {}
    /\ \E i \in 1..Len(sent') : sent'[i].msg[1] = "GAMEEND"

\* C36: when place or forfeit has sent GAMEEND, the room is no longer in the
\* registry (so that it is in no ROOMLIST and its name is free for a
\* CREATE), the membership entries of its two players are none, and neither
\* of them is a player of a room any more, so that their next PLACE or
\* FORFEIT is answered NOROOM.
MatchCleanup ==
    [][\A c \in Conns :
          EndsMatch(c) =>
              \A name \in {LastPlayerRoom(rooms, c)} :
              \A room \in {DictGet(rooms, name)} :
                  /\ ~DictHas(rooms', name)
                  /\ \A k \in 1..Len(room.players) :
                         /\ room.players[k] \in DOMAIN clients'
                         /\ clients'[room.players[k]] = None
                         /\ PlayerRooms(rooms', room.players[k]) = {}
      ]_vars

\* A room is deleted while it is in use: c1 creates r1 and places, c2 joins as
\* a player and hangs up at any time, c3 joins as a viewer.
GoneScript(c) ==
    CASE c = "c1" -> <<Create("r1"), Place(0, 0)>>
      [] c = "c2" -> <<Join("r1", "PLAYER")>>
      [] c = "c3" -> <<Join("r1", "VIEWER")>>

NextGone ==
    \/ \E c \in Conns :
           \/ RecvNext(c)
           \/ Step(c)
    \/ \E c \in Leavers : Hangup(c)

SpecGone ==
    InitLoggedIn([c \in Conns |-> GoneScript(c)]) /\ [][NextGone]_vars

\* a handler is between the clear() and the update() that rebuild rooms
Rebuilding == \E d \in Conns : pc[d] \in {"end5", "fin14"}

\* the step is the write-back of a room by join_room or place
WritesBack(c) == last'.conn = c /\ pc[c] \in {"join4", "place2"}

\* C37: the write-back of a room by a JOIN or a PLACE adds no name to the
\* registry: a room that was deleted after the handler read it stays
\* deleted.
NoResurrection ==
    [][\A c \in Conns :
          (WritesBack(c) /\ ~Rebuilding) =>
              \A name \in RoomNames : DictHas(rooms', name) => DictHas(rooms, name)
      ]_vars

====
